---- MODULE Spec2Model ----
(***************************************************************************)
(* Bank-statement import of control-gastos (backend/crud.py): the row loop *)
(* of parse_bank_excel, the duplicate check against the store, the import  *)
(* rules, and the confirmation of pending transactions.                    *)
(*                                                                         *)
(* Strings are tuples of one-character strings.  Amounts are counted in    *)
(* units of 10^-FracDigits: with three digits 1234.56 is 1234560.          *)
(***************************************************************************)
EXTENDS Integers, Sequences, FiniteSets, TLC

VARIABLES
  now,                  \* datetime.now(): the date, [y, m, d]
  transactions,         \* table transactions (confirmed)
  pending,              \* table pending_transactions
  import_rules,         \* table import_rules
  categories,           \* table categories
  reminders,            \* table reminders
  next_id,              \* next primary key of pending_transactions / import_rules
  pc,                   \* position of the running parse_bank_excel call
  user_id,              \* its argument user_id
  file_content,         \* the bytes it was given, as the readers see them
  df,                   \* its DataFrame
  date_col, desc_col, cargo_col, abono_col,   \* resolved columns (0 is None)
  idx,                  \* the row the loop is at
  total_imported, duplicates_skipped, auto_categorized,
  pending_transactions, \* objects added to the session, written at commit
  batch_id,
  outcome,              \* how the loop body left the last row
  result,               \* what the last call returned or raised
  seen,                 \* what an observer of the calls has noted of the last two
  calls                 \* handler calls made so far, by kind

vars == <<now, transactions, pending, import_rules, categories, reminders, next_id, pc, user_id, file_content, df,
          date_col, desc_col, cargo_col, abono_col, idx, total_imported,
          duplicates_skipped, auto_categorized, pending_transactions,
          batch_id, outcome, result, seen, calls>>

----------------------------------------------------------------------------
(* Bounds of the model *)

MaxRows == 2          \* rows of a table
MaxImports == 2       \* calls of parse_bank_excel
MaxConfirms == 1      \* calls of confirm_pending_transactions
MaxDeletes == 1       \* calls of delete_pending_transaction
MaxRules == 2         \* calls of create_import_rule
MaxUpdates == 1       \* calls of update_import_rule
MaxCreates == 1       \* calls of create_transaction
MaxPaid == 2          \* calls of mark_reminder_as_paid
MaxConfirmCalls == 2  \* calls of confirm_pending_transactions where a second call matters
MaxRepeatedIds == 2   \* length of transaction_ids where an id can come twice
MaxBatchIds == 2      \* values uuid4 can give
MaxConfirmIds == 1    \* length of transaction_ids
FracDigits == 3       \* decimal digits an amount of the model keeps

----------------------------------------------------------------------------
(* Python str *)

Space == " "

Upper == <<"A","B","C","D","E","F","G","H","I","J","K","L","M","N","O","P","Q","R","S","T","U","V","W","X","Y","Z","Á","É","Í","Ó","Ú","Ñ">>
LowerOf == <<"a","b","c","d","e","f","g","h","i","j","k","l","m","n","o","p","q","r","s","t","u","v","w","x","y","z","á","é","í","ó","ú","ñ">>

UpperSet == {Upper[i] : i \in 1..Len(Upper)}

LowerChar(c) ==
  IF c \in UpperSet
  THEN LowerOf[CHOOSE i \in 1..Len(Upper) : Upper[i] = c]
  ELSE c

lower(s) == [i \in 1..Len(s) |-> LowerChar(s[i])]

RECURSIVE lstrip(_)
lstrip(s) == IF s # << >> /\ Head(s) = Space THEN lstrip(Tail(s)) ELSE s

RECURSIVE rstrip(_)
rstrip(s) ==
  IF s # << >> /\ s[Len(s)] = Space THEN rstrip(SubSeq(s, 1, Len(s) - 1)) ELSE s

strip(s) == rstrip(lstrip(s))

\* sub in s
contains(s, sub) ==
  \/ sub = << >>
  \/ \E i \in 1..(Len(s) - Len(sub) + 1) :
       s[i] = sub[1] /\ SubSeq(s, i, i + Len(sub) - 1) = sub

\* s.replace(c, by) for a character c and a string by
RECURSIVE replace(_, _, _)
replace(s, c, by) ==
  IF s = << >> THEN << >>
  ELSE (IF Head(s) = c THEN by ELSE <<Head(s)>>) \o replace(Tail(s), c, by)

\* s.split(c)
RECURSIVE split(_, _)
split(s, c) ==
  IF \E i \in 1..Len(s) : s[i] = c
  THEN LET i == CHOOSE j \in 1..Len(s) : s[j] = c /\ \A k \in 1..(j - 1) : s[k] # c
       IN  <<SubSeq(s, 1, i - 1)>> \o split(SubSeq(s, i + 1, Len(s)), c)
  ELSE <<s>>

\* s.zfill(2) of an unsigned string
zfill2(s) == IF Len(s) = 0 THEN <<"0","0">> ELSE IF Len(s) = 1 THEN <<"0">> \o s ELSE s

\* s[:n]
prefix(s, n) == SubSeq(s, 1, IF Len(s) < n THEN Len(s) ELSE n)

Digits == <<"0","1","2","3","4","5","6","7","8","9">>
IsDigit(c) == \E i \in 1..10 : Digits[i] = c
DigitVal(c) == (CHOOSE i \in 1..10 : Digits[i] = c) - 1
AllDigits(s) == \A i \in 1..Len(s) : IsDigit(s[i])

RECURSIVE NatVal(_)
NatVal(s) == IF s = << >> THEN 0 ELSE 10 * NatVal(SubSeq(s, 1, Len(s) - 1)) + DigitVal(s[Len(s)])

RECURSIVE Pow10(_)
Pow10(n) == IF n = 0 THEN 1 ELSE 10 * Pow10(n - 1)

RECURSIVE NatStr(_)
NatStr(n) == IF n < 10 THEN <<Digits[n + 1]>> ELSE NatStr(n \div 10) \o <<Digits[(n % 10) + 1]>>

----------------------------------------------------------------------------
(* Cells of a DataFrame: NaN, a string, a float64 or an int64 *)

AmountScale == Pow10(FracDigits)

NaN == [k |-> "nan", s |-> << >>, v |-> 0]
CellText(s) == [k |-> "str", s |-> s, v |-> 0]
CellFloat(v) == [k |-> "float", s |-> << >>, v |-> v]
CellInt(n) == [k |-> "int", s |-> << >>, v |-> n]

pd_isna(c) == c.k = "nan"
pd_notna(c) == ~pd_isna(c)

RECURSIVE StripZeros(_)
StripZeros(s) ==
  IF Len(s) > 1 /\ s[Len(s)] = "0" THEN StripZeros(SubSeq(s, 1, Len(s) - 1)) ELSE s

\* n written with exactly w digits
RECURSIVE Padded(_, _)
Padded(n, w) == IF w = 0 THEN << >> ELSE Padded(n \div 10, w - 1) \o <<Digits[(n % 10) + 1]>>

Abs(n) == IF n < 0 THEN -n ELSE n

\* repr of a float: the shortest decimal, with at least one digit after the point
FloatStr(v) ==
  (IF v < 0 THEN <<"-">> ELSE << >>)
    \o NatStr(Abs(v) \div AmountScale) \o <<".">>
    \o StripZeros(Padded(Abs(v) % AmountScale, FracDigits))

\* str(cell)
str(c) ==
  CASE c.k = "nan" -> <<"n","a","n">>
    [] c.k = "str" -> c.s
    [] c.k = "float" -> FloatStr(c.v)
    [] c.k = "int" -> (IF c.v < 0 THEN <<"-">> ELSE << >>) \o NatStr(Abs(c.v))

\* float(s): [ok, v]; ok is FALSE where float raises ValueError.  Digits after
\* the FracDigits-th are dropped.
float(s0) ==
  LET s == strip(s0)
      neg == s # << >> /\ Head(s) = "-"
      u == IF s # << >> /\ Head(s) \in {"-", "+"} THEN Tail(s) ELSE s
      parts == split(u, ".")
      ip == parts[1]
      fp == IF Len(parts) = 2 THEN parts[2] ELSE << >>
      wellformed == /\ Len(parts) <= 2
                    /\ AllDigits(ip) /\ AllDigits(fp)
                    /\ Len(ip) + Len(fp) > 0
      fpk == [i \in 1..FracDigits |-> IF i <= Len(fp) THEN fp[i] ELSE "0"]
      mag == NatVal(ip) * AmountScale + NatVal(fpk)
  IN  IF wellformed THEN [ok |-> TRUE, v |-> IF neg THEN -mag ELSE mag]
      ELSE [ok |-> FALSE, v |-> 0]

----------------------------------------------------------------------------
(* Dates *)

Date(y, m, d) == [y |-> y, m |-> m, d |-> d]

IsLeap(y) == y % 4 = 0 /\ (y % 100 # 0 \/ y % 400 = 0)

DaysInMonth(y, m) ==
  IF m = 2 THEN (IF IsLeap(y) THEN 29 ELSE 28)
  ELSE IF m \in {4, 6, 9, 11} THEN 30 ELSE 31

NoDate == Date(0, 0, 0)

\* datetime.strptime(f"{anio}-{mes}-{dia}", "%Y-%m-%d").date(): [ok, date]
strptime(anio, mes, dia) ==
  IF /\ AllDigits(dia) /\ Len(dia) \in {1, 2}
     /\ NatVal(dia) >= 1 /\ NatVal(dia) <= DaysInMonth(anio, mes)
  THEN [ok |-> TRUE, date |-> Date(anio, mes, NatVal(dia))]
  ELSE [ok |-> FALSE, date |-> NoDate]

\* meses_es: its keys, and the month each maps to
meses_es_keys ==
  <<<<"e","n","e">>, <<"e","n","e","r","o">>, <<"f","e","b">>, <<"f","e","b","r","e","r","o">>, <<"m","a","r">>, <<"m","a","r","z","o">>, <<"a","b","r">>, <<"a","b","r","i","l">>,
    <<"m","a","y">>, <<"m","a","y","o">>, <<"j","u","n">>, <<"j","u","n","i","o">>, <<"j","u","l">>, <<"j","u","l","i","o">>, <<"a","g","o">>, <<"a","g","o","s","t","o">>,
    <<"s","e","p">>, <<"s","e","p","t","i","e","m","b","r","e">>, <<"o","c","t">>, <<"o","c","t","u","b","r","e">>, <<"n","o","v">>, <<"n","o","v","i","e","m","b","r","e">>,
    <<"d","i","c">>, <<"d","i","c","i","e","m","b","r","e">>>>

\* meses_es.get(mes_str, '01')
meses_es_get(mes_str) ==
  IF \E i \in 1..Len(meses_es_keys) : meses_es_keys[i] = mes_str
  THEN ((CHOOSE i \in 1..Len(meses_es_keys) : meses_es_keys[i] = mes_str) + 1) \div 2
  ELSE 1

\* the year of a DD/Mon date, always the current one
anio_of_current(mes, today) == today.y

\* the year of a DD/Mon date
anio_of(mes, today) ==
  IF mes = 12 /\ today.m = 1 THEN today.y - 1
  ELSE IF mes = 1 /\ today.m = 12 THEN today.y + 1
  ELSE today.y

\* the branch "02/Ene": [ok, date]
fecha_especial(fecha_str, today) ==
  IF /\ contains(fecha_str, <<"/">>)
     /\ \E i \in 1..Len(meses_es_keys) : contains(lower(fecha_str), meses_es_keys[i])
  THEN LET parts == split(fecha_str, "/")
       IN  IF Len(parts) = 2
           THEN LET dia == zfill2(parts[1])
                    mes == meses_es_get(lower(parts[2]))
                IN  strptime(anio_of(mes, today), mes, dia)
           ELSE [ok |-> FALSE, date |-> NoDate]
  ELSE [ok |-> FALSE, date |-> NoDate]

\* pd.to_datetime(fecha_raw, errors='coerce').date() on the cells of the model:
\* a string YYYY-MM-DD of a calendar date gives that date, any other cell NaT
to_datetime(c) ==
  LET s == strip(str(c))
      p == split(s, "-")
  IN  IF /\ c.k = "str" /\ Len(p) = 3
         /\ Len(p[1]) = 4 /\ Len(p[2]) = 2 /\ Len(p[3]) = 2
         /\ AllDigits(p[1]) /\ AllDigits(p[2]) /\ AllDigits(p[3])
         /\ NatVal(p[2]) \in 1..12
      THEN strptime(NatVal(p[1]), NatVal(p[2]), p[3])
      ELSE [ok |-> FALSE, date |-> NoDate]

\* the date of a row: [ok, date]; ok is FALSE where the loop continues
parse_fecha(fecha_raw, today) ==
  IF pd_isna(fecha_raw) THEN [ok |-> FALSE, date |-> NoDate]
  ELSE LET esp == fecha_especial(strip(str(fecha_raw)), today)
       IN  IF esp.ok THEN esp ELSE to_datetime(fecha_raw)

----------------------------------------------------------------------------
(* parse_bank_excel: the table and its columns *)

\* the (sep, encoding) pairs of the CSV search, in the order they are tried
csv_attempts ==
  <<<<";", "utf-8">>, <<";", "latin1">>, <<";", "iso-8859-1">>, <<";", "cp1252">>,
    <<",", "utf-8">>, <<",", "latin1">>, <<",", "iso-8859-1">>, <<",", "cp1252">>,
    <<"tab", "utf-8">>, <<"tab", "latin1">>, <<"tab", "iso-8859-1">>, <<"tab", "cp1252">>>>

NoTable == [columns |-> << >>, rows |-> << >>]

\* A file is what the readers make of its bytes: excel is [ok, df] (ok is FALSE
\* where pd.read_excel raises), csv maps an attempt to [ok, raw] (ok is FALSE
\* where pd.read_csv raises, raw is the rows read with header=None).

\* ' '.join(str(cell).lower() for cell in row if pd.notna(cell))
RECURSIVE row_str(_, _)
row_str(row, i) ==
  IF i > Len(row) THEN << >>
  ELSE IF pd_isna(row[i]) THEN row_str(row, i + 1)
  ELSE LET rest == row_str(row, i + 1)
       IN  lower(str(row[i])) \o (IF rest = << >> THEN << >> ELSE <<Space>> \o rest)

\* the test of line 1086 on a row
is_header(row) ==
  /\ contains(row_str(row, 1), <<"f","e","c","h","a">>)
  /\ \/ contains(row_str(row, 1), <<"d","e","s","c","r","i","p","c","i","ó","n">>)
     \/ contains(row_str(row, 1), <<"d","e","s","c","r","i","p","c","i","o","n">>)
     \/ contains(row_str(row, 1), <<"d","e","t","a","l","l","e">>)

\* header_row taken from the last row that passes the test
header_row_last(raw) ==
  IF \E i \in 1..Len(raw) : is_header(raw[i])
  THEN CHOOSE i \in 1..Len(raw) : is_header(raw[i]) /\ \A j \in (i + 1)..Len(raw) : ~is_header(raw[j])
  ELSE 0

\* lines 1083-1088: the first row that passes the test (0 is None)
header_row(raw) ==
  IF \E i \in 1..Len(raw) : is_header(raw[i])
  THEN CHOOSE i \in 1..Len(raw) : is_header(raw[i]) /\ \A j \in 1..(i - 1) : ~is_header(raw[j])
  ELSE 0

\* the name pandas gives column i from the cell of the header row
column_name(cell, i) == IF pd_isna(cell) THEN <<"U","n","n","a","m","e","d",":"," ">> \o NatStr(i - 1) ELSE str(cell)

\* pd.read_csv(..., header=h): the cells of row h name the columns
with_header(raw, h) ==
  [columns |-> [i \in 1..Len(raw[h]) |-> column_name(raw[h][i], i)],
   rows |-> SubSeq(raw, h + 1, Len(raw))]

\* lines 1075-1096, one (sep, encoding) attempt: [ok, df]
read_csv(reading) ==
  IF reading.ok /\ header_row(reading.raw) # 0
  THEN [ok |-> TRUE, df |-> with_header(reading.raw, header_row(reading.raw))]
  ELSE [ok |-> FALSE, df |-> NoTable]

\* the attempts of the search that give a table
csv_hits(content) == {i \in 1..Len(csv_attempts) : read_csv(content.csv[csv_attempts[i]]).ok}

\* csv_search taking the last attempt that gives a table
csv_search_last(content) ==
  IF csv_hits(content) = {} THEN [ok |-> FALSE, df |-> NoTable]
  ELSE read_csv(content.csv[csv_attempts[CHOOSE i \in csv_hits(content) :
                                           \A j \in csv_hits(content) : i >= j]])

\* lines 1073-1099: the table of the first attempt that gives one
csv_search(content) ==
  IF csv_hits(content) = {} THEN [ok |-> FALSE, df |-> NoTable]
  ELSE read_csv(content.csv[csv_attempts[CHOOSE i \in csv_hits(content) :
                                           \A j \in csv_hits(content) : i <= j]])

\* load with an empty table taken as read
load_empty_ok(content) ==
  IF content.excel.ok THEN [ok |-> TRUE, df |-> content.excel.df] ELSE csv_search(content)

\* lines 1068-1102: [ok, df]; ok is FALSE where the ValueError of line 1102 is raised
load(content) ==
  LET found == IF content.excel.ok THEN [ok |-> TRUE, df |-> content.excel.df]
               ELSE csv_search(content)
  IN  IF found.ok /\ found.df.rows # << >> THEN found ELSE [ok |-> FALSE, df |-> NoTable]

date_words == <<<<"f","e","c","h","a">>, <<"d","a","t","e">>>>
desc_words == <<<<"d","e","s","c","r","i","p","c","i","ó","n">>, <<"d","e","s","c","r","i","p","c","i","o","n">>, <<"d","e","s","c","r","i","p","t","i","o","n">>, <<"d","e","t","a","l","l","e">>, <<"g","l","o","s","a">>>>
cargo_words == <<<<"c","a","r","g","o">>, <<"c","a","r","g","o","s">>, <<"d","e","b","e">>, <<"e","g","r","e","s","o">>, <<"g","a","s","t","o">>>>
abono_words == <<<<"a","b","o","n","o">>, <<"a","b","o","n","o","s">>, <<"h","a","b","e","r">>, <<"i","n","g","r","e","s","o">>, <<"d","e","p","o","s","i","t","o">>, <<"d","e","p","ó","s","i","t","o">>>>

\* any(word in col_lower for word in words)
any_word_in(words, col_lower) == \E i \in 1..Len(words) : contains(col_lower, words[i])

NoCols == [date_col |-> 0, desc_col |-> 0, cargo_col |-> 0, abono_col |-> 0]

\* the loop over cols_lower, from column i on
RECURSIVE identify_columns(_, _, _)
identify_columns(columns, i, acc) ==
  IF i > Len(columns) THEN acc
  ELSE LET col_lower == lower(strip(columns[i]))
       IN  identify_columns(columns, i + 1,
             IF any_word_in(date_words, col_lower) THEN [acc EXCEPT !.date_col = i]
             ELSE IF any_word_in(desc_words, col_lower) THEN [acc EXCEPT !.desc_col = i]
             ELSE IF any_word_in(cargo_words, col_lower) THEN [acc EXCEPT !.cargo_col = i]
             ELSE IF any_word_in(abono_words, col_lower) THEN [acc EXCEPT !.abono_col = i]
             ELSE acc)

\* columns_error asking for both amount columns
columns_error_needs_both(cols) ==
  IF cols.date_col = 0 THEN "No se encontró columna de fecha"
  ELSE IF cols.desc_col = 0 THEN "No se encontró columna de descripción"
  ELSE IF cols.cargo_col = 0 \/ cols.abono_col = 0 THEN "No se encontraron columnas de Cargo/Abono"
  ELSE "ok"

\* the three checks after the loop: the ValueError raised, or "ok"
columns_error(cols) ==
  IF cols.date_col = 0 THEN "No se encontró columna de fecha"
  ELSE IF cols.desc_col = 0 THEN "No se encontró columna de descripción"
  ELSE IF cols.cargo_col = 0 /\ cols.abono_col = 0 THEN "No se encontraron columnas de Cargo/Abono"
  ELSE "ok"

\* the labels a ValueError of the column checks lists after "Columnas
\* disponibles:": ', '.join(df.columns), the columns as line 1105 left them
columns_listed(table) == [i \in 1..Len(table.columns) |-> strip(table.columns[i])]

----------------------------------------------------------------------------
(* parse_bank_excel: one row *)

TYPE_INGRESO == 1
TYPE_GASTO == 2
DescMax == 200
None == 0

boilerplate_words == <<<<"s","u","b","t","o","t","a","l">>, <<"n","o","t","a","s",":">>, <<"i","n","f","o","r","m","a","c","i","ó","n"," ","r","e","f","e","r","e","n","c","i","a","l">>>>

\* cargo / abono of a row: the value of the cell of column col, 0 where the
\* column is absent, the cell is empty or float raises
parse_monto(row, col) ==
  IF col = 0 THEN 0
  ELSE LET val == row[col]
       IN  IF pd_notna(val) /\ strip(str(val)) # << >>
           THEN LET monto_str == strip(replace(replace(str(val), ".", << >>), ",", <<".">>))
                IN  IF monto_str # << >> /\ float(monto_str).ok THEN float(monto_str).v ELSE 0
           ELSE 0

Skipped == [ok |-> FALSE, fecha |-> NoDate, descripcion |-> << >>, amount |-> 0, trans_type |-> 0]

\* normalize_row without the test for totals and notes
normalize_row_no_boilerplate(row, cols, today) ==
  LET fecha == parse_fecha(row[cols.date_col], today)
      descripcion == strip(str(row[cols.desc_col]))
      cargo == parse_monto(row, cols.cargo_col)
      abono == parse_monto(row, cols.abono_col)
  IN  IF ~fecha.ok THEN Skipped
      ELSE IF descripcion = <<"n","a","n">> \/ descripcion = << >> THEN Skipped
      ELSE IF cargo > 0
        THEN [ok |-> TRUE, fecha |-> fecha.date, descripcion |-> descripcion,
              amount |-> cargo, trans_type |-> TYPE_GASTO]
      ELSE IF abono > 0
        THEN [ok |-> TRUE, fecha |-> fecha.date, descripcion |-> descripcion,
              amount |-> abono, trans_type |-> TYPE_INGRESO]
      ELSE Skipped

\* normalize_row with the abono tested before the cargo
normalize_row_abono_first(row, cols, today) ==
  LET fecha == parse_fecha(row[cols.date_col], today)
      descripcion == strip(str(row[cols.desc_col]))
      cargo == parse_monto(row, cols.cargo_col)
      abono == parse_monto(row, cols.abono_col)
  IN  IF ~fecha.ok THEN Skipped
      ELSE IF descripcion = <<"n","a","n">> \/ descripcion = << >> THEN Skipped
      ELSE IF any_word_in(boilerplate_words, lower(descripcion)) THEN Skipped
      ELSE IF abono > 0
        THEN [ok |-> TRUE, fecha |-> fecha.date, descripcion |-> descripcion,
              amount |-> abono, trans_type |-> TYPE_INGRESO]
      ELSE IF cargo > 0
        THEN [ok |-> TRUE, fecha |-> fecha.date, descripcion |-> descripcion,
              amount |-> cargo, trans_type |-> TYPE_GASTO]
      ELSE Skipped

\* normalize_row with the words for totals and notes looked for in the
\* description as written
normalize_row_case_sensitive(row, cols, today) ==
  LET fecha == parse_fecha(row[cols.date_col], today)
      descripcion == strip(str(row[cols.desc_col]))
      cargo == parse_monto(row, cols.cargo_col)
      abono == parse_monto(row, cols.abono_col)
  IN  IF ~fecha.ok THEN Skipped
      ELSE IF descripcion = <<"n","a","n">> \/ descripcion = << >> THEN Skipped
      ELSE IF any_word_in(boilerplate_words, descripcion) THEN Skipped
      ELSE IF cargo > 0
        THEN [ok |-> TRUE, fecha |-> fecha.date, descripcion |-> descripcion,
              amount |-> cargo, trans_type |-> TYPE_GASTO]
      ELSE IF abono > 0
        THEN [ok |-> TRUE, fecha |-> fecha.date, descripcion |-> descripcion,
              amount |-> abono, trans_type |-> TYPE_INGRESO]
      ELSE Skipped

\* the loop body up to the duplicate check: [ok, fecha, descripcion, amount,
\* trans_type]; ok is FALSE where the body continues with the next row
normalize_row(row, cols, today) ==
  LET fecha == parse_fecha(row[cols.date_col], today)
      descripcion == strip(str(row[cols.desc_col]))
      cargo == parse_monto(row, cols.cargo_col)
      abono == parse_monto(row, cols.abono_col)
  IN  IF ~fecha.ok THEN Skipped
      ELSE IF descripcion = <<"n","a","n">> \/ descripcion = << >> THEN Skipped
      ELSE IF any_word_in(boilerplate_words, lower(descripcion)) THEN Skipped
      ELSE IF cargo > 0
        THEN [ok |-> TRUE, fecha |-> fecha.date, descripcion |-> descripcion,
              amount |-> cargo, trans_type |-> TYPE_GASTO]
      ELSE IF abono > 0
        THEN [ok |-> TRUE, fecha |-> fecha.date, descripcion |-> descripcion,
              amount |-> abono, trans_type |-> TYPE_INGRESO]
      ELSE Skipped

\* what a query of the session reads of pending_transactions: the committed
\* rows, not the objects the session has added and not yet flushed
query_pending(committed, added) == committed

\* the query of line 1255 without the filter on user_id
existe_confirmada_any_user(table, u, fecha, amount, descripcion_corta) ==
  \E t \in table :
    t.date = fecha /\ t.amount = amount /\ t.description = descripcion_corta

\* the query of line 1255
existe_confirmada(table, u, fecha, amount, descripcion_corta) ==
  \E t \in table :
    /\ t.user_id = u /\ t.date = fecha
    /\ t.amount = amount /\ t.description = descripcion_corta

\* the query of line 1263 on raw_description instead of description
existe_pendiente_raw(table, u, fecha, amount, descripcion_corta) ==
  \E p \in table :
    /\ p.user_id = u /\ p.date = fecha
    /\ p.amount = amount /\ p.raw_description = descripcion_corta

\* the query of line 1263
existe_pendiente(table, u, fecha, amount, descripcion_corta) ==
  \E p \in table :
    /\ p.user_id = u /\ p.date = fecha
    /\ p.amount = amount /\ p.description = descripcion_corta

----------------------------------------------------------------------------
(* Import rules *)

get_import_rules(rules, u) == {r \in rules : r.user_id = u /\ r.is_active}

\* apply_import_rules over the rules in ascending priority
apply_import_rules_ascending(rules, u, description) ==
  LET description_lower == lower(description)
      matching == {r \in {q \in rules : q.user_id = u /\ q.is_active} :
                     contains(description_lower, lower(r.keyword))}
      first == {r \in matching : \A q \in matching : q.priority >= r.priority}
  IN  IF matching = {} THEN {None} ELSE {r.category_id : r \in first}

\* ORDER BY priority DESC leaves the order of equal priorities open: the rule
\* the loop returns on is any matching rule no matching rule outranks.
\* The set of the values apply_import_rules can return.
apply_import_rules(rules, u, description) ==
  LET description_lower == lower(description)
      matching == {r \in get_import_rules(rules, u) :
                     contains(description_lower, lower(r.keyword))}
      first == {r \in matching : \A q \in matching : q.priority <= r.priority}
  IN  IF matching = {} THEN {None} ELSE {r.category_id : r \in first}

----------------------------------------------------------------------------
(* Handlers *)

Users == {1, 2}
CategoryIds == {1, 2}

\* the categories and the reminders the users have made before the first call
Category(id, u) == [id |-> id, user_id |-> u, is_active |-> TRUE]
StoredCategories == {Category(1, 1), Category(2, 2)}
Reminder(id, u, name, amount) ==
  [id |-> id, user_id |-> u, name |-> name, amount |-> amount, last_paid_date |-> NoDate]
StoredReminders ==
  {Reminder(1, 1, <<"L","u","z">>, 45 * AmountScale), Reminder(2, 2, <<"G","a","s">>, 30 * AmountScale),
   Reminder(3, 1, <<"A","g","u","a">>, 45 * AmountScale)}
BatchIds == 1..MaxBatchIds

NoResult == [kind |-> "none"]
NoSeen == [prev_ok |-> FALSE, prev_user |-> 0, prev_df |-> NoTable, prev_total |-> 0,
           prev_candidates |-> << >>,
           prev_fresh |-> FALSE, prev_quiet |-> FALSE, fresh |-> FALSE, quiet |-> FALSE,
           rules |-> {}, args |-> << >>]

\* a row the loop would take is not recorded for user u
fresh_row(n, u) ==
  n.ok => /\ ~existe_confirmada(transactions, u, n.fecha, n.amount, prefix(n.descripcion, DescMax))
          /\ ~existe_pendiente(pending, u, n.fecha, n.amount, prefix(n.descripcion, DescMax))

\* no row of the table that the loop would take is recorded for user u
fresh_for(table, cols, u, today) ==
  \A i \in 1..Len(table.rows) : fresh_row(normalize_row(table.rows[i], cols, today), u)

\* every other handler that writes marks the running import call as disturbed
Disturbed == [seen EXCEPT !.quiet = FALSE]

\* the observer notes the arguments of a call
DisturbedBy(args) == [seen EXCEPT !.quiet = FALSE, !.args = args]

\* and a handler that writes rules leaves the rules it wrote with the observer
DisturbedRules(written) == [seen EXCEPT !.quiet = FALSE, !.rules = @ \cup {written}]

\* what the observer notes when a call starts on a table
seen_at_begin(is_fresh) ==
  IF result.kind = "ok"
  THEN [prev_ok |-> TRUE, prev_user |-> user_id, prev_df |-> df,
        prev_total |-> result.total_imported,
        prev_candidates |-> pending_transactions,
        prev_fresh |-> seen.fresh, prev_quiet |-> seen.quiet,
        fresh |-> is_fresh, quiet |-> TRUE, rules |-> {import_rules}, args |-> seen.args]
  ELSE [NoSeen EXCEPT !.fresh = is_fresh, !.quiet = TRUE, !.rules = {import_rules}, !.args = seen.args]

\* lines 1101-1139, given the table loaded, the columns found and the error
\* the column checks raise
begin_call(u, b, loaded, cols, error) ==
  IF ~loaded.ok \/ error # "ok"
  THEN /\ result' = [kind |-> "error",
                     error |-> IF ~loaded.ok THEN "No se pudo leer el archivo" ELSE error,
                     columns |-> IF ~loaded.ok THEN << >> ELSE columns_listed(loaded.df)]
       /\ UNCHANGED <<pc, user_id, df, date_col, desc_col, cargo_col, abono_col, idx,
                      total_imported, duplicates_skipped, auto_categorized,
                      pending_transactions, batch_id, outcome, seen>>
  ELSE /\ pc' = "rows"
       /\ user_id' = u
       /\ df' = loaded.df
       /\ batch_id' = b
       /\ date_col' = cols.date_col
       /\ desc_col' = cols.desc_col
       /\ cargo_col' = cols.cargo_col
       /\ abono_col' = cols.abono_col
       /\ idx' = 1
       /\ total_imported' = 0
       /\ duplicates_skipped' = 0
       /\ auto_categorized' = 0
       /\ pending_transactions' = << >>
       /\ outcome' = "none"
       /\ result' = NoResult
       /\ seen' = seen_at_begin(fresh_for(loaded.df, cols, u, now))

begin_loaded(u, b, loaded, cols) == begin_call(u, b, loaded, cols, columns_error(cols))

begin_file(u, b, loaded) ==
  begin_loaded(u, b, loaded, identify_columns(loaded.df.columns, 1, NoCols))

\* parse_bank_excel, lines 1064-1139: load the table, find the columns
ParseBegin(users, files, batch_ids) ==
  /\ pc = "idle"
  /\ calls.imports < MaxImports
  /\ \E u \in users, f \in files, b \in batch_ids :
       /\ file_content' = f
       /\ begin_file(u, b, load(f))
  /\ calls' = [calls EXCEPT !.imports = @ + 1]
  /\ UNCHANGED <<categories, reminders, now, transactions, pending, import_rules, next_id>>

Cols == [date_col |-> date_col, desc_col |-> desc_col,
         cargo_col |-> cargo_col, abono_col |-> abono_col]

\* new_pending with auto_categorized always set
new_pending_always_auto(n, descripcion_corta, category_id) ==
  [user_id |-> user_id, category_id |-> category_id,
   amount |-> n.amount, type |-> n.trans_type,
   description |-> descripcion_corta,
   raw_description |-> n.descripcion, date |-> n.fecha,
   auto_categorized |-> TRUE, import_batch_id |-> batch_id,
   is_confirmed |-> FALSE]

\* lines 1275-1297: the pending transaction of a row, given the category
new_pending(n, descripcion_corta, category_id) ==
  [user_id |-> user_id, category_id |-> category_id,
   amount |-> n.amount, type |-> n.trans_type,
   description |-> descripcion_corta,
   raw_description |-> n.descripcion, date |-> n.fecha,
   auto_categorized |-> category_id # None, import_batch_id |-> batch_id,
   is_confirmed |-> FALSE]

\* row_done with the rules applied and counted before the duplicate is dropped
row_done_rules_first(n, descripcion_corta, dup) ==
  IF ~n.ok
  THEN /\ outcome' = "skip"
       /\ UNCHANGED <<total_imported, duplicates_skipped, auto_categorized,
                      pending_transactions>>
  ELSE \E category_id \in apply_import_rules(import_rules, user_id, n.descripcion) :
         /\ auto_categorized' = auto_categorized + (IF category_id # None THEN 1 ELSE 0)
         /\ IF dup
            THEN /\ outcome' = "dup"
                 /\ duplicates_skipped' = duplicates_skipped + 1
                 /\ UNCHANGED <<total_imported, pending_transactions>>
            ELSE /\ outcome' = "new"
                 /\ pending_transactions' =
                      Append(pending_transactions, new_pending(n, descripcion_corta, category_id))
                 /\ total_imported' = total_imported + 1
                 /\ UNCHANGED duplicates_skipped

\* row_done with a row that is passed over counted among the duplicates
row_done_skip_counted(n, descripcion_corta, dup) ==
  IF ~n.ok
  THEN /\ outcome' = "skip"
       /\ duplicates_skipped' = duplicates_skipped + 1
       /\ UNCHANGED <<total_imported, auto_categorized, pending_transactions>>
  ELSE IF dup
  THEN /\ outcome' = "dup"
       /\ duplicates_skipped' = duplicates_skipped + 1
       /\ UNCHANGED <<total_imported, auto_categorized, pending_transactions>>
  ELSE \E category_id \in apply_import_rules(import_rules, user_id, n.descripcion) :
         /\ outcome' = "new"
         /\ auto_categorized' = auto_categorized + (IF category_id # None THEN 1 ELSE 0)
         /\ pending_transactions' =
              Append(pending_transactions, new_pending(n, descripcion_corta, category_id))
         /\ total_imported' = total_imported + 1
         /\ UNCHANGED duplicates_skipped

\* lines 1251-1297, given the row as normalized and whether it is recorded
row_done(n, descripcion_corta, dup) ==
  IF ~n.ok
  THEN /\ outcome' = "skip"
       /\ UNCHANGED <<total_imported, duplicates_skipped, auto_categorized,
                      pending_transactions>>
  ELSE IF dup
  THEN /\ outcome' = "dup"
       /\ duplicates_skipped' = duplicates_skipped + 1
       /\ UNCHANGED <<total_imported, auto_categorized, pending_transactions>>
  ELSE \E category_id \in apply_import_rules(import_rules, user_id, n.descripcion) :
         /\ outcome' = "new"
         /\ auto_categorized' = auto_categorized + (IF category_id # None THEN 1 ELSE 0)
         /\ pending_transactions' =
              Append(pending_transactions, new_pending(n, descripcion_corta, category_id))
         /\ total_imported' = total_imported + 1
         /\ UNCHANGED duplicates_skipped

\* is_duplicate with the candidates of the running call looked at too
is_duplicate_in_call(n, descripcion_corta) ==
  \/ existe_confirmada(transactions, user_id, n.fecha, n.amount, descripcion_corta)
  \/ existe_pendiente(query_pending(pending, pending_transactions),
                      user_id, n.fecha, n.amount, descripcion_corta)
  \/ \E i \in 1..Len(pending_transactions) :
       /\ pending_transactions[i].date = n.fecha
       /\ pending_transactions[i].amount = n.amount
       /\ pending_transactions[i].description = descripcion_corta

\* is_duplicate looking at the confirmed transactions only
is_duplicate_confirmed_only(n, descripcion_corta) ==
  existe_confirmada(transactions, user_id, n.fecha, n.amount, descripcion_corta)

\* lines 1251-1273: the two queries for a recorded row
is_duplicate(n, descripcion_corta) ==
  \/ existe_confirmada(transactions, user_id, n.fecha, n.amount, descripcion_corta)
  \/ existe_pendiente(query_pending(pending, pending_transactions),
                      user_id, n.fecha, n.amount, descripcion_corta)

row_checked(n, descripcion_corta) ==
  row_done(n, descripcion_corta, n.ok /\ is_duplicate(n, descripcion_corta))

row_body(n) == row_checked(n, prefix(n.descripcion, DescMax))

\* ParseRow with the loop left at the first row that is passed over
ParseRow_breaks ==
  /\ pc = "rows"
  /\ row_body(normalize_row(df.rows[idx], Cols, now))
  /\ idx' = idx + 1
  /\ pc' = IF idx = Len(df.rows) \/ outcome' = "skip" THEN "commit" ELSE "rows"
  /\ UNCHANGED <<categories, reminders, file_content, now, transactions, pending, import_rules, next_id, user_id, df,
                 date_col, desc_col, cargo_col, abono_col, batch_id, result, seen, calls>>

\* parse_bank_excel, lines 1141-1301: the loop body on row idx
ParseRow ==
  /\ pc = "rows"
  /\ row_body(normalize_row(df.rows[idx], Cols, now))
  /\ idx' = idx + 1
  /\ pc' = IF idx = Len(df.rows) THEN "commit" ELSE "rows"
  /\ UNCHANGED <<categories, reminders, file_content, now, transactions, pending, import_rules, next_id, user_id, df,
                 date_col, desc_col, cargo_col, abono_col, batch_id, result, seen, calls>>

\* the objects of the session with the keys the commit gives them
with_ids(objs, first) ==
  {[id |-> first + i - 1] @@ objs[i] : i \in 1..Len(objs)}

\* lines 1309-1320: the dict returned, given the candidates with their ids
import_result(candidates) ==
  [kind |-> "ok",
   total_imported |-> total_imported,
   auto_categorized |-> auto_categorized,
   needs_review |-> total_imported - auto_categorized,
   duplicates_skipped |-> duplicates_skipped,
   batch_id |-> batch_id,
   pending_transactions |-> candidates]

\* lines 1306-1307: the objects of the list after db.refresh, with their keys
refreshed(objs, first) == [i \in 1..Len(objs) |-> [id |-> first + i - 1] @@ objs[i]]

\* parse_bank_excel, lines 1303-1320: commit, refresh and return
ParseCommit ==
  /\ pc = "commit"
  /\ pending' = pending \cup with_ids(pending_transactions, next_id.pending)
  /\ pending_transactions' = refreshed(pending_transactions, next_id.pending)
  /\ next_id' = [next_id EXCEPT !.pending = @ + Len(pending_transactions)]
  /\ result' = import_result(with_ids(pending_transactions, next_id.pending))
  /\ pc' = "idle"
  /\ UNCHANGED <<categories, reminders, file_content, now, transactions, import_rules, user_id, df, date_col, desc_col,
                 cargo_col, abono_col, idx, total_imported, duplicates_skipped,
                 auto_categorized, batch_id, outcome, seen, calls>>

\* get_pending_transactions: the rows the query returns, as a set; batch_id
\* None is the call without a batch_id
get_pending_transactions_any_user(table, u, b) ==
  {p \in table : ~p.is_confirmed /\ (b # None => p.import_batch_id = b)}

get_pending_transactions(table, u, b) ==
  {p \in table : /\ p.user_id = u
                 /\ ~p.is_confirmed
                 /\ (b # None => p.import_batch_id = b)}

\* confirm_loop without the check of line 1016
RECURSIVE confirm_loop_unchecked(_, _, _, _, _)
confirm_loop_unchecked(transaction_ids, i, u, category_assignments, acc) ==
  IF i > Len(transaction_ids) THEN acc
  ELSE LET trans_id == transaction_ids[i]
           found == {p \in query_pending(pending, << >>) :
                       p.id = trans_id /\ p.user_id = u /\ ~p.is_confirmed}
       IN  IF found = {}
           THEN confirm_loop_unchecked(transaction_ids, i + 1, u, category_assignments, acc)
           ELSE LET loaded == IF trans_id \in DOMAIN acc.objs THEN acc.objs[trans_id]
                              ELSE CHOOSE p \in found : TRUE
                    assigned == IF trans_id \in DOMAIN category_assignments
                                THEN [loaded EXCEPT !.category_id = category_assignments[trans_id]]
                                ELSE loaded
                IN  confirm_loop_unchecked(transaction_ids, i + 1, u, category_assignments,
                      [objs |-> (trans_id :> [assigned EXCEPT !.is_confirmed = TRUE]) @@ acc.objs,
                       added |-> Append(acc.added,
                                   [user_id |-> u, category_id |-> assigned.category_id,
                                    amount |-> assigned.amount, type |-> assigned.type,
                                    description |-> assigned.description,
                                    date |-> assigned.date]),
                       count |-> acc.count + 1])

\* confirm_pending_transactions, the loop from position i of transaction_ids.
\* acc is the session: objs the pending objects it has loaded and written to,
\* by id; added the Transaction objects it has added; count confirmed_count.
\* The query of line 1002 filters on the committed rows.
RECURSIVE confirm_loop(_, _, _, _, _)
confirm_loop(transaction_ids, i, u, category_assignments, acc) ==
  IF i > Len(transaction_ids) THEN acc
  ELSE LET trans_id == transaction_ids[i]
           found == {p \in query_pending(pending, << >>) :
                       p.id = trans_id /\ p.user_id = u /\ ~p.is_confirmed}
       IN  IF found = {} THEN confirm_loop(transaction_ids, i + 1, u, category_assignments, acc)
           ELSE LET loaded == IF trans_id \in DOMAIN acc.objs THEN acc.objs[trans_id]
                              ELSE CHOOSE p \in found : TRUE
                    assigned == IF trans_id \in DOMAIN category_assignments
                                THEN [loaded EXCEPT !.category_id = category_assignments[trans_id]]
                                ELSE loaded
                IN  IF assigned.category_id = None
                    THEN confirm_loop(transaction_ids, i + 1, u, category_assignments,
                           [acc EXCEPT !.objs = (trans_id :> assigned) @@ @])
                    ELSE confirm_loop(transaction_ids, i + 1, u, category_assignments,
                           [objs |-> (trans_id :> [assigned EXCEPT !.is_confirmed = TRUE]) @@ acc.objs,
                            added |-> Append(acc.added,
                                        [user_id |-> u, category_id |-> assigned.category_id,
                                         amount |-> assigned.amount, type |-> assigned.type,
                                         description |-> assigned.description,
                                         date |-> assigned.date]),
                            count |-> acc.count + 1])

EmptySession == [objs |-> << >>, added |-> << >>, count |-> 0]

\* the lists transaction_ids the model passes
IdLists == UNION {[1..n -> 1..(next_id.pending - 1)] : n \in 1..MaxConfirmIds}

\* the category_assignments the model passes for a list of ids
Assignments(ids) ==
  {<< >>} \cup {[i \in {ids[k] : k \in 1..Len(ids)} |-> c] : c \in CategoryIds}

\* confirm_pending_transactions, called at most max_calls times with one of
\* the lists given
ConfirmPendingOf(id_lists, max_calls) ==
  /\ calls.confirms < max_calls
  /\ \E u \in Users, transaction_ids \in id_lists :
       \E category_assignments \in Assignments(transaction_ids) :
         LET s == confirm_loop(transaction_ids, 1, u, category_assignments, EmptySession)
         IN  /\ pending' = {IF p.id \in DOMAIN s.objs THEN s.objs[p.id] ELSE p : p \in pending}
             /\ transactions' = transactions \cup with_ids(s.added, next_id.transaction)
             /\ next_id' = [next_id EXCEPT !.transaction = @ + Len(s.added)]
             /\ result' = [kind |-> "confirmed", confirmed_count |-> s.count]
  /\ calls' = [calls EXCEPT !.confirms = @ + 1]
  /\ seen' = Disturbed
  /\ UNCHANGED <<categories, reminders, file_content, now, import_rules, pc, user_id, df, date_col, desc_col, cargo_col,
                 abono_col, idx, total_imported, duplicates_skipped, auto_categorized,
                 pending_transactions, batch_id, outcome>>

\* confirm_pending_transactions
ConfirmPending == ConfirmPendingOf(IdLists, MaxConfirms)

\* delete_pending_transaction; a call that finds no row returns False and
\* writes nothing
DeletePending ==
  /\ calls.deletes < MaxDeletes
  /\ \E u \in Users, transaction_id \in 1..(next_id.pending - 1) :
       LET found == {p \in pending : p.id = transaction_id /\ p.user_id = u}
       IN  IF found = {}
           THEN UNCHANGED <<pending, calls, seen>>
           ELSE /\ pending' = pending \ found
                /\ calls' = [calls EXCEPT !.deletes = @ + 1]
                /\ seen' = Disturbed
  /\ UNCHANGED <<categories, reminders, file_content, now, transactions, import_rules, next_id, pc, user_id, df, date_col,
                 desc_col, cargo_col, abono_col, idx, total_imported, duplicates_skipped,
                 auto_categorized, pending_transactions, batch_id, outcome, result>>

\* create_import_rule, called with one of the given rules [keyword,
\* category_id, priority]
CreateImportRule(users, rules) ==
  /\ calls.rules < MaxRules
  /\ \E u \in users, rule \in rules :
       import_rules' = import_rules \cup
         {[id |-> next_id.rule, user_id |-> u, keyword |-> rule.keyword,
           category_id |-> rule.category_id, priority |-> rule.priority,
           is_active |-> TRUE]}
  /\ next_id' = [next_id EXCEPT !.rule = @ + 1]
  /\ calls' = [calls EXCEPT !.rules = @ + 1]
  /\ seen' = DisturbedRules(import_rules')
  /\ UNCHANGED <<categories, reminders, file_content, now, transactions, pending, pc, user_id, df, date_col, desc_col, cargo_col,
                 abono_col, idx, total_imported, duplicates_skipped, auto_categorized,
                 pending_transactions, batch_id, outcome, result>>

\* update_import_rule, called to set is_active; a call that finds no rule
\* returns None and writes nothing
UpdateImportRule ==
  /\ calls.updates < MaxUpdates
  /\ \E u \in Users, rule_id \in 1..(next_id.rule - 1), is_active \in BOOLEAN :
       LET found == {r \in import_rules : r.id = rule_id /\ r.user_id = u}
       IN  IF found = {}
           THEN UNCHANGED <<import_rules, calls, seen>>
           ELSE /\ import_rules' = (import_rules \ found)
                                     \cup {[r EXCEPT !.is_active = is_active] : r \in found}
                /\ calls' = [calls EXCEPT !.updates = @ + 1]
                /\ seen' = DisturbedRules(import_rules')
  /\ UNCHANGED <<categories, reminders, file_content, now, transactions, pending, next_id, pc, user_id, df, date_col, desc_col,
                 cargo_col, abono_col, idx, total_imported, duplicates_skipped,
                 auto_categorized, pending_transactions, batch_id, outcome, result>>

\* create_transaction, called with one of the given TransactionCreate
\* [category_id, amount, type, description, date]
CreateTransaction(users, given) ==
  /\ calls.creates < MaxCreates
  /\ \E u \in users, transaction \in given :
       transactions' = transactions \cup
         {[id |-> next_id.transaction, user_id |-> u,
           category_id |-> transaction.category_id, amount |-> transaction.amount,
           type |-> transaction.type, description |-> transaction.description,
           date |-> transaction.date]}
  /\ next_id' = [next_id EXCEPT !.transaction = @ + 1]
  /\ calls' = [calls EXCEPT !.creates = @ + 1]
  /\ seen' = Disturbed
  /\ UNCHANGED <<categories, reminders, file_content, now, pending, import_rules, pc, user_id, df, date_col, desc_col, cargo_col,
                 abono_col, idx, total_imported, duplicates_skipped, auto_categorized,
                 pending_transactions, batch_id, outcome, result>>

\* get_category
get_category(category_id, u) == {c \in categories : c.id = category_id /\ c.user_id = u}

\* delete_category: a category some transaction names is made inactive, any
\* other is deleted; a call that finds no category returns False
DeleteCategory ==
  /\ \E u \in Users, category_id \in CategoryIds :
       IF get_category(category_id, u) = {}
       THEN UNCHANGED <<categories, seen>>
       ELSE /\ categories' =
                 IF \E t \in transactions : t.category_id = category_id
                 THEN (categories \ get_category(category_id, u))
                        \cup {[c EXCEPT !.is_active = FALSE] : c \in get_category(category_id, u)}
                 ELSE categories \ get_category(category_id, u)
            /\ seen' = Disturbed
  /\ UNCHANGED <<reminders, file_content, now, transactions, pending, import_rules, next_id, pc,
                 user_id, df, date_col, desc_col, cargo_col, abono_col, idx, total_imported,
                 duplicates_skipped, auto_categorized, pending_transactions, batch_id,
                 outcome, result, calls>>

\* f"Pago de {reminder.name} (automático desde recordatorio)"
paid_description(name) == <<"P","a","g","o"," ","d","e"," ">> \o name \o <<" ","(","a","u","t","o","m","á","t","i","c","o"," ","d","e","s","d","e"," ","r","e","c","o","r","d","a","t","o","r","i","o",")">>

\* mark_reminder_as_paid with the reminder updated and no transaction added
mark_paid_no_transaction(found, u, payment_date, category_id) ==
  /\ reminders' = (reminders \ found) \cup {[r EXCEPT !.last_paid_date = payment_date] : r \in found}
  /\ UNCHANGED <<transactions, next_id>>
  /\ result' = [kind |-> "paid", reminder |-> [(CHOOSE r \in found : TRUE) EXCEPT !.last_paid_date = payment_date],
                transaction |-> None]

\* mark_reminder_as_paid, lines 741-758, on the reminder found
mark_paid(found, u, payment_date, category_id) ==
  /\ reminders' = (reminders \ found) \cup {[r EXCEPT !.last_paid_date = payment_date] : r \in found}
  /\ transactions' = transactions \cup
       {[id |-> next_id.transaction, user_id |-> u, category_id |-> category_id,
         amount |-> r.amount, type |-> 2, description |-> paid_description(r.name),
         date |-> payment_date] : r \in found}
  /\ next_id' = [next_id EXCEPT !.transaction = @ + 1]
  /\ result' = [kind |-> "paid",
                reminder |-> [(CHOOSE r \in found : TRUE) EXCEPT !.last_paid_date = payment_date],
                transaction |-> next_id.transaction]

\* mark_reminder_as_paid, called with a reminder_id, a user, one of the dates
\* given and a category_id
MarkReminderAsPaid(reminder_ids, payment_dates) ==
  /\ calls.paid < MaxPaid
  /\ \E reminder_id \in reminder_ids, u \in Users, payment_date \in payment_dates,
        category_id \in CategoryIds :
       /\ IF {r \in reminders : r.id = reminder_id /\ r.user_id = u} = {}
          THEN /\ result' = [kind |-> "paid", reminder |-> None, transaction |-> None]
               /\ UNCHANGED <<reminders, transactions, next_id>>
          ELSE mark_paid({r \in reminders : r.id = reminder_id /\ r.user_id = u},
                         u, payment_date, category_id)
       /\ seen' = DisturbedBy([reminder_id |-> reminder_id, user_id |-> u,
                               payment_date |-> payment_date, category_id |-> category_id])
  /\ calls' = [calls EXCEPT !.paid = @ + 1]
  /\ UNCHANGED <<categories, file_content, now, pending, import_rules, pc, user_id, df, date_col,
                 desc_col, cargo_col, abono_col, idx, total_imported, duplicates_skipped,
                 auto_categorized, pending_transactions, batch_id, outcome>>

----------------------------------------------------------------------------
(* The files, rules and dates the model feeds the handlers *)

NoCsv == [a \in {csv_attempts[i] : i \in 1..Len(csv_attempts)} |-> [ok |-> FALSE, raw |-> << >>]]

\* the rows pd.read_csv gives with header=None for a table written with its header
raw_of(table) == <<[i \in 1..Len(table.columns) |-> CellText(table.columns[i])]>> \o table.rows

ExcelFile(table) == [excel |-> [ok |-> TRUE, df |-> table], csv |-> NoCsv]
CsvFile(attempt, table) ==
  [excel |-> [ok |-> FALSE, df |-> NoTable],
   csv |-> [NoCsv EXCEPT ![attempt] = [ok |-> TRUE, raw |-> raw_of(table)]]]
Unreadable == [excel |-> [ok |-> FALSE, df |-> NoTable], csv |-> NoCsv]

StdColumns == <<<<"F","e","c","h","a">>, <<"D","e","s","c","r","i","p","c","i","ó","n">>, <<"C","a","r","g","o">>, <<"A","b","o","n","o">>>>

\* tables of 1..MaxRows rows drawn from a set of rows
Tables(columns, rows) ==
  {[columns |-> columns, rows |-> r] : r \in UNION {[1..n -> rows] : n \in 1..MaxRows}}

Jan15 == Date(2026, 1, 15)
Dec20 == Date(2025, 12, 20)
Jun10 == Date(2026, 6, 10)

\* descriptions of DescMax + 1 and of DescMax characters with the same first
\* DescMax characters, and one of DescMax characters that differs in the last
Long201 == <<"P","a","g","o"," ">> \o [i \in 1..(DescMax - 4) |-> "x"]
Long200 == prefix(Long201, DescMax)
Long200b == prefix(Long201, DescMax - 1) \o <<"y">>

Mar5 == CellText(<<"2","0","2","5","-","0","3","-","0","5">>)
Mar6 == CellText(<<"2","0","2","5","-","0","3","-","0","6">>)
Uber == CellText(<<"U","b","e","r"," ","v","i","a","j","e">>)
Monto == CellText(<<"1",".","2","3","4",",","5","6">>)

RowUber == <<Mar5, Uber, Monto, NaN>>
RowLong201 == <<Mar5, CellText(Long201), NaN, CellText(<<"5","0","0">>)>>
RowLong200 == <<Mar5, CellText(Long200), NaN, CellText(<<"5","0","0">>)>>
RowSubtotal == <<Mar5, CellText(<<"S","U","B","T","O","T","A","L"," ","M","O","V","I","M","I","E","N","T","O","S">>), Monto, NaN>>

\* rows that differ from RowUber in the date, the amount, the description
RowOtherDate == <<Mar6, Uber, Monto, NaN>>
RowOtherAmount == <<Mar5, Uber, CellText(<<"1",".","2","3","4",",","5","7">>), NaN>>
RowOtherDesc == <<Mar5, CellText(<<"U","b","e","r"," ","v","i","a","j","e","s">>), Monto, NaN>>
RowOtherLong == <<Mar5, CellText(Long200b), NaN, CellText(<<"5","0","0">>)>>

DedupRows == {RowUber, RowLong201, RowLong200, RowSubtotal}

OneRow(row) == ExcelFile([columns |-> StdColumns, rows |-> <<row>>])

Files ==
  {ExcelFile(t) : t \in Tables(StdColumns, DedupRows)}
    \cup {OneRow(RowOtherDate), OneRow(RowOtherAmount), OneRow(RowOtherDesc),
          OneRow(RowOtherLong)}
    \cup {Unreadable,
          ExcelFile([columns |-> <<<<"F","e","c","h","a">>, <<"M","o","n","t","o">>>>, rows |-> <<<<Mar5, CellText(<<"1","0">>)>>>>]),
          CsvFile(<<";", "latin1">>, [columns |-> StdColumns, rows |-> <<RowUber>>])}

\* the files of the second user
OtherFiles == {OneRow(RowUber), OneRow(RowLong200)}

Init(todays) ==
  /\ now \in todays
  /\ transactions = {}
  /\ pending = {}
  /\ import_rules = {}
  /\ categories = StoredCategories
  /\ reminders = StoredReminders
  /\ next_id = [pending |-> 1, transaction |-> 1, rule |-> 1]
  /\ pc = "idle"
  /\ user_id = 0
  /\ file_content = Unreadable
  /\ df = NoTable
  /\ date_col = 0 /\ desc_col = 0 /\ cargo_col = 0 /\ abono_col = 0
  /\ idx = 0
  /\ total_imported = 0 /\ duplicates_skipped = 0 /\ auto_categorized = 0
  /\ pending_transactions = << >>
  /\ batch_id = 0
  /\ outcome = "none"
  /\ result = NoResult
  /\ seen = NoSeen
  /\ calls = [imports |-> 0, confirms |-> 0, deletes |-> 0, rules |-> 0, updates |-> 0,
              creates |-> 0, paid |-> 0]

\* imports, confirmations and deletions of two users
InitStore == Init({Jan15})
Next ==
  \/ ParseBegin({1}, Files, {calls.imports + 1})
  \/ ParseBegin({2}, OtherFiles, {calls.imports + 1})
  \/ ParseRow
  \/ ParseCommit
  \/ ConfirmPending
  \/ DeletePending
Spec == InitStore /\ [][Next]_vars

\* rules of two users and imports of the first
RowLuz == <<Mar5, CellText(<<"P","a","g","o"," ","l","u","z">>), CellText(<<"4","5",",","5">>), NaN>>
RowRenta == <<Mar6, CellText(<<"R","e","n","t","a">>), NaN, CellText(<<"9","0","0">>)>>

RuleFiles ==
  {OneRow(RowUber), OneRow(RowLuz), OneRow(RowRenta),
   ExcelFile([columns |-> StdColumns, rows |-> <<RowUber, RowLuz>>]),
   ExcelFile([columns |-> StdColumns, rows |-> <<RowRenta, RowUber>>])}

\* the rules the first user makes, and the rule the second user makes
Rule(keyword, category_id, priority) ==
  [keyword |-> keyword, category_id |-> category_id, priority |-> priority]
Rules1 == {Rule(<<"u","b","e","r">>, 1, 10), Rule(<<"u","b","e","r">>, 1, 5), Rule(<<"U">>, 2, 10), Rule(<<"U">>, 2, 5)}
Rules2 == {Rule(<<"r","e","n","t","a">>, 2, 10)}

InitRules == Init({Jan15})
NextRules ==
  \/ CreateImportRule({1}, Rules1)
  \/ CreateImportRule({2}, Rules2)
  \/ UpdateImportRule
  \/ ParseBegin({1}, RuleFiles, {calls.imports + 1})
  \/ ParseRow
  \/ ParseCommit
SpecRules == InitRules /\ [][NextRules]_vars

\* single rows over the date cells, and over the amount cells, on three dates
DateCells ==
  {CellText(<<"3","1","/","D","i","c">>), CellText(<<"1","5","/","D","I","C","I","E","M","B","R","E">>), CellText(<<"0","2","/","E","n","e">>), CellText(<<"1","/","e","n","e","r","o">>),
   CellText(<<"5","/","j","u","n">>), CellText(<<"3","1","/","F","e","b">>), CellText(<<"1","2","/","a","g","o","s">>), CellText(<<"2","0","2","5","-","0","3","-","0","5">>),
   CellText(<<"2","0","2","5","-","0","2","-","3","0">>), CellText(<<"T","o","t","a","l">>), NaN}

CargoCells ==
  {NaN, CellText(<<"1",".","2","3","4",",","5","6">>), CellText(<<"0",",","1","2","5">>), CellText(<<"a","b","c">>), CellText(<<"-","5">>),
   CellText(<<" ">>), CellText(<<"0">>), CellFloat(1234 * AmountScale + 56 * (AmountScale \div 100)),
   CellInt(1500)}

AbonoCells == {NaN, CellText(<<"1","2",".","5","0","0",",","5","0">>), CellText(<<"0",",","5">>), CellText(<<"0">>)}

RowFiles ==
  {OneRow(<<d, Uber, Monto, NaN>>) : d \in DateCells}
    \cup {OneRow(<<Mar5, Uber, c, a>>) : c \in CargoCells, a \in AbonoCells}
    \cup {ExcelFile([columns |-> <<<<"F","e","c","h","a">>, <<"D","e","t","a","l","l","e">>, <<"C","a","r","g","o">>>>, rows |-> <<<<Mar5, Uber, c>>>>]) :
            c \in {CellText(<<"1",".","2","3","4",",","5","6">>), NaN}}
    \cup {ExcelFile([columns |-> <<<<"D","a","t","e">>, <<"G","l","o","s","a">>, <<"A","b","o","n","o","s">>>>, rows |-> <<<<Mar5, Uber, a>>>>]) :
            a \in {CellText(<<"0",",","5">>), NaN}}

InitRow == Init({Jan15, Dec20, Jun10})
NextRow ==
  \/ ParseBegin({1}, RowFiles, {calls.imports + 1})
  \/ ParseRow
  \/ ParseCommit
SpecRow == InitRow /\ [][NextRow]_vars

----------------------------------------------------------------------------
(* Vocabulary of the properties *)

\* the row the loop body ran on last, and the candidate it emitted
LastRow == df.rows[idx - 1]
LastEmitted == pending_transactions[Len(pending_transactions)]
RowWasRun == pc \in {"rows", "commit"} /\ idx > 1

\* a step of the loop body on row idx
RowStep == pc = "rows" /\ idx' = idx + 1

\* the description, the amount and the date a row states
RowDesc(row) == strip(str(row[desc_col]))
RowCargo(row) == parse_monto(row, cargo_col)
RowAbono(row) == parse_monto(row, abono_col)
RowAmount(row) == IF RowCargo(row) > 0 THEN RowCargo(row) ELSE RowAbono(row)
RowDate(row) == parse_fecha(row[date_col], now)

\* a row is structurally valid: its date parses, its trimmed description is
\* not empty, not 'nan' and not boilerplate, and a debit or credit is > 0
StructurallyValid(row) ==
  /\ RowDate(row).ok
  /\ RowDesc(row) # << >>
  /\ RowDesc(row) # <<"n","a","n">>
  /\ ~contains(lower(RowDesc(row)), <<"s","u","b","t","o","t","a","l">>)
  /\ ~contains(lower(RowDesc(row)), <<"n","o","t","a","s",":">>)
  /\ ~contains(lower(RowDesc(row)), <<"i","n","f","o","r","m","a","c","i","ó","n"," ","r","e","f","e","r","e","n","c","i","a","l">>)
  /\ (RowCargo(row) > 0 \/ RowAbono(row) > 0)

\* a record has the (date, amount, description) of a row, the description
\* of the row cut to its first DescMax characters
SameKey(rec, row) ==
  /\ rec.date = RowDate(row).date
  /\ rec.amount = RowAmount(row)
  /\ rec.description = prefix(RowDesc(row), DescMax)

\* the store holds a record of user u with the key of the row
Recorded(u, row) ==
  \/ \E t \in transactions : t.user_id = u /\ SameKey(t, row)
  \/ \E p \in pending : p.user_id = u /\ SameKey(p, row)

----------------------------------------------------------------------------
(* Properties *)

\* C1: every result parse_bank_excel returns has needs_review =
\* total_imported - auto_categorized and 0 <= auto_categorized <= total_imported.
C1_NeedsReview ==
  result.kind = "ok" =>
    /\ result.needs_review = result.total_imported - result.auto_categorized
    /\ 0 <= result.auto_categorized
    /\ result.auto_categorized <= result.total_imported
    /\ result.total_imported = Cardinality(result.pending_transactions)

C1_Witness ==
  /\ result.kind = "ok"
  /\ result.total_imported = 2
  /\ result.auto_categorized = 1
  /\ result.needs_review = 1

\* C2: for a call that gets past the loader and the resolver, total_imported
\* + duplicates_skipped is the number of structurally valid rows of the table.
C2_CountsValidRows ==
  (pc = "idle" /\ result.kind = "ok") =>
    result.total_imported + result.duplicates_skipped
      = Cardinality({i \in 1..Len(df.rows) : StructurallyValid(df.rows[i])})

C2_Witness ==
  /\ pc = "idle" /\ result.kind = "ok"
  /\ Len(df.rows) = 2
  /\ result.total_imported = 0
  /\ result.duplicates_skipped = 1

\* the last two calls imported the same table for the same user, the first
\* found none of its rows recorded, and no other handler wrote since it began
SameFileTwice ==
  /\ pc = "idle" /\ result.kind = "ok"
  /\ seen.prev_ok /\ seen.prev_fresh /\ seen.prev_quiet /\ seen.quiet
  /\ seen.prev_user = user_id
  /\ seen.prev_df = df

\* C3: importing the same file twice in succession for the same user, from a
\* store that holds none of its rows, emits nothing the second time: the second
\* call returns total_imported = 0 and duplicates_skipped = the first call's
\* total_imported.
C3_SecondImportIsNoOp ==
  SameFileTwice =>
    /\ result.total_imported = 0
    /\ result.pending_transactions = {}
    /\ result.duplicates_skipped = seen.prev_total

C3_Witness ==
  /\ SameFileTwice
  /\ seen.prev_total = 2
  /\ result.duplicates_skipped = 2

\* C4: a structurally valid row is dropped as a duplicate, and
\* duplicates_skipped goes up by one, exactly when the store holds for the same
\* user a confirmed or a pending transaction with the row's (date, amount,
\* description cut to DescMax characters); otherwise the row is emitted and
\* duplicates_skipped stays.
C4_DroppedIffRecorded ==
  [][(RowStep /\ StructurallyValid(df.rows[idx])) =>
       IF Recorded(user_id, df.rows[idx])
       THEN /\ duplicates_skipped' = duplicates_skipped + 1
            /\ pending_transactions' = pending_transactions
       ELSE /\ duplicates_skipped' = duplicates_skipped
            /\ Len(pending_transactions') = Len(pending_transactions) + 1]_vars

\* a row with a description longer than DescMax was dropped for a confirmed
\* transaction of the user while no pending transaction has its key, and
\* the other user holds no such record
C4_Witness ==
  /\ RowWasRun /\ outcome = "dup"
  /\ Len(RowDesc(LastRow)) > DescMax
  /\ \E t \in transactions : t.user_id = user_id /\ SameKey(t, LastRow)
  /\ ~\E p \in pending : SameKey(p, LastRow)

\* C5: a row is not compared with the candidates emitted earlier in the same
\* call: a structurally valid row with the key of such a candidate and of no
\* record of the store is emitted and duplicates_skipped stays.
C5_NoDedupWithinCall ==
  [][(/\ RowStep
      /\ StructurallyValid(df.rows[idx])
      /\ \E i \in 1..Len(pending_transactions) : SameKey(pending_transactions[i], df.rows[idx])
      /\ ~Recorded(user_id, df.rows[idx]))
     => /\ total_imported' = total_imported + 1
        /\ Len(pending_transactions') = Len(pending_transactions) + 1
        /\ duplicates_skipped' = duplicates_skipped]_vars

\* the second of two rows with one key was emitted like the first
C5_Witness ==
  /\ RowWasRun /\ outcome = "new"
  /\ idx = 3
  /\ Len(pending_transactions) = 2
  /\ SameKey(pending_transactions[1], LastRow)
  /\ SameKey(pending_transactions[2], LastRow)
  /\ duplicates_skipped = 0

\* C6: every candidate an import emits has amount > 0 and an amount of at
\* most two decimal digits.
C6_AmountTwoDecimals ==
  \A i \in 1..Len(pending_transactions) :
    /\ pending_transactions[i].amount > 0
    /\ pending_transactions[i].amount % (AmountScale \div 100) = 0

\* C7: a row with cargo > 0 gives an expense of amount cargo, also when abono
\* > 0; otherwise a row with abono > 0 gives an income of amount abono;
\* otherwise the row is skipped.
C7_KindResolution ==
  RowWasRun =>
    /\ (outcome = "new" /\ RowCargo(LastRow) > 0) =>
         (LastEmitted.type = TYPE_GASTO /\ LastEmitted.amount = RowCargo(LastRow))
    /\ (outcome = "new" /\ RowCargo(LastRow) <= 0) =>
         /\ RowAbono(LastRow) > 0
         /\ LastEmitted.type = TYPE_INGRESO
         /\ LastEmitted.amount = RowAbono(LastRow)
    /\ (RowCargo(LastRow) <= 0 /\ RowAbono(LastRow) <= 0) => outcome = "skip"
    /\ (StructurallyValid(LastRow) /\ (RowCargo(LastRow) > 0 \/ RowAbono(LastRow) > 0))
         => outcome # "skip"

\* a row with both amounts > 0 was emitted as an expense
C7_Witness ==
  /\ RowWasRun /\ outcome = "new"
  /\ RowCargo(LastRow) > 0 /\ RowAbono(LastRow) > 0
  /\ LastEmitted.type = TYPE_GASTO
  /\ LastEmitted.amount = RowCargo(LastRow)

\* the active rules of user u whose keyword, lowercased, is in the lowercased
\* description
MatchingRules(u, description) ==
  {r \in import_rules :
     r.user_id = u /\ r.is_active /\ contains(lower(description), lower(r.keyword))}

\* C8: the category of an emitted row is that of an active rule of the user
\* whose keyword matches the raw description and that no matching rule
\* outranks, whatever the lengths of the keywords and the order of creation.
C8_HighestPriorityWins ==
  [][(RowStep /\ outcome' = "new") =>
       LET raw == RowDesc(df.rows[idx])
           cat == pending_transactions'[Len(pending_transactions')].category_id
           matching == MatchingRules(user_id, raw)
       IN  IF matching = {} THEN cat = None
           ELSE \E r \in matching :
                  /\ r.category_id = cat
                  /\ \A q \in matching : q.priority <= r.priority]_vars

\* rules {uber: 1, priority 10} and {u: 2, priority 5}, the second created
\* first, and "Uber viaje" got category 1
C8_Witness ==
  /\ RowWasRun /\ outcome = "new"
  /\ RowDesc(LastRow) = <<"U","b","e","r"," ","v","i","a","j","e">>
  /\ LastEmitted.category_id = 1
  /\ \E r \in import_rules, q \in import_rules :
       /\ r.user_id = user_id /\ r.is_active /\ lower(r.keyword) = <<"u","b","e","r">>
       /\ r.priority = 10 /\ r.category_id = 1
       /\ q.user_id = user_id /\ q.is_active /\ lower(q.keyword) = <<"u">>
       /\ q.priority = 5 /\ q.category_id = 2
       /\ q.id < r.id

\* C9: a candidate is auto_categorized exactly when its category_id is set,
\* a category_id is the category of a rule of the user whose keyword is in the
\* description, and the candidates not auto_categorized are the needs_review.
C9_AutoIffCategory ==
  /\ \A i \in 1..Len(pending_transactions) :
       LET p == pending_transactions[i]
       IN  /\ p.auto_categorized <=> p.category_id # None
           /\ p.category_id # None =>
                \E r \in import_rules :
                  /\ r.user_id = p.user_id /\ r.category_id = p.category_id
                  /\ contains(lower(p.raw_description), lower(r.keyword))
  /\ result.kind = "ok" =>
       result.needs_review
         = Cardinality({p \in result.pending_transactions : ~p.auto_categorized})

\* of two candidates one matched no rule and is left for review
C9_Witness ==
  /\ result.kind = "ok"
  /\ result.needs_review = 1
  /\ \E p \in result.pending_transactions :
       p.category_id = None /\ ~p.auto_categorized
  /\ \E p \in result.pending_transactions :
       p.category_id # None /\ p.auto_categorized

\* a cell DD/Mon: two parts around one slash, the second a month of meses_es
IsShorthand(cell) ==
  /\ cell.k = "str"
  /\ Len(split(strip(cell.s), "/")) = 2
  /\ \E i \in 1..Len(meses_es_keys) : meses_es_keys[i] = lower(split(strip(cell.s), "/")[2])

ShorthandMonth(cell) == meses_es_get(lower(split(strip(cell.s), "/")[2]))

\* C10: the year of a date DD/Mon is the current year - 1 for December read in
\* January, the current year + 1 for January read in December, the current
\* year otherwise.
C10_YearInference ==
  (RowWasRun /\ outcome = "new" /\ IsShorthand(LastRow[date_col])) =>
    LET m == ShorthandMonth(LastRow[date_col])
    IN  /\ LastEmitted.date.m = m
        /\ LastEmitted.date.y =
             IF m = 12 /\ now.m = 1 THEN now.y - 1
             ELSE IF m = 1 /\ now.m = 12 THEN now.y + 1
             ELSE now.y

\* '31/Dic' read on 2026-01-15 gave 2025-12-31
C10_Witness ==
  /\ RowWasRun /\ outcome = "new"
  /\ now = Date(2026, 1, 15)
  /\ LastRow[date_col] = CellText(<<"3","1","/","D","i","c">>)
  /\ LastEmitted.date = Date(2025, 12, 31)

----------------------------------------------------------------------------
(* Column resolution: tables with other headers *)

Table(columns, rows) == ExcelFile([columns |-> columns, rows |-> rows])

Mar6Monto == CellText(<<"2","0">>)

ColumnFiles ==
  {OneRow(RowUber),
   Table(<<<<" ","F","e","c","h","a"," ">>, <<"D","E","T","A","L","L","E">>, <<"C","a","r","g","o","s">>>>, <<<<Mar5, Uber, Monto>>>>),
   Table(<<<<"F","e","c","h","a">>, <<"D","e","s","c","r","i","p","c","i","ó","n">>, <<"A","b","o","n","o">>>>, <<<<Mar5, Uber, CellText(<<"5","0","0">>)>>>>),
   Table(<<<<"F","e","c","h","a">>, <<"D","e","s","c","r","i","p","c","i","ó","n">>, <<"A","b","o","n","o">>>>, <<<<Mar5, Uber, NaN>>>>),
   Table(<<<<"F","e","c","h","a">>, <<"D","e","s","c","r","i","p","c","i","ó","n">>, <<"C","a","r","g","o">>>>, <<<<Mar5, Uber, Monto>>>>),
   Table(<<<<"F","e","c","h","a">>, <<"M","o","n","t","o">>>>, <<<<Mar5, Monto>>>>),
   Table(<<<<"F","e","c","h","a">>, <<"D","e","s","c","r","i","p","c","i","ó","n">>>>, <<<<Mar5, Uber>>>>),
   Table(<<<<"D","e","s","c","r","i","p","c","i","ó","n">>, <<"C","a","r","g","o">>>>, <<<<Uber, Monto>>>>),
   Table(<<<<"M","o","n","t","o">>, <<"S","a","l","d","o">>>>, <<<<Monto, Monto>>>>),
   Table(<<<<"F","e","c","h","a">>, <<"D","e","s","c","r","i","p","c","i","ó","n">>, <<"C","a","r","g","o">>, <<"C","a","r","g","o","s">>>>, <<<<Mar5, Uber, Monto, Mar6Monto>>>>),
   Table(<<<<"F","e","c","h","a">>, <<"D","a","t","e">>, <<"D","e","s","c","r","i","p","c","i","ó","n">>, <<"C","a","r","g","o">>>>, <<<<Mar5, Mar6, Uber, Monto>>>>),
   Table(<<<<"U","p","d","a","t","e">>, <<"D","e","s","c","r","i","p","c","i","ó","n">>, <<"C","a","r","g","o">>>>, <<<<Mar6, Uber, Monto>>>>),
   Table(<<<<"F","e","c","h","a">>, <<"D","e","s","c","r","i","p","c","i","ó","n">>, <<"F","e","c","h","a"," ","C","a","r","g","o">>, <<"C","a","r","g","o">>>>, <<<<Mar5, Uber, Mar6, Monto>>>>),
   Table(<<<<"F","e","c","h","a">>, <<"D","e","s","c","r","i","p","c","i","ó","n">>, <<"C","a","r","g","o">>, <<"S","a","l","d","o">>>>, <<<<Mar5, Uber, Monto, Mar6Monto>>>>),
   Table(<<<<"F","e","c","h","a">>, <<"D","e","s","c","r","i","p","c","i","ó","n">>, <<"C","a","r","g","o">>, <<"A","b","o","n","o">>>>,
         <<<<Mar5, Uber, Monto, CellText(<<"5","0","0">>)>>>>),
   Table(StdColumns, << >>),
   Unreadable,
   CsvFile(<<";", "utf-8">>, [columns |-> <<<<"F","e","c","h","a">>, <<"D","e","t","a","l","l","e">>, <<"H","a","b","e","r">>>>,
                              rows |-> <<<<Mar5, Uber, Monto>>>>])}

InitColumns == Init({Jan15})
NextColumns ==
  \/ ParseBegin({1}, ColumnFiles, {calls.imports + 1})
  \/ ParseRow
  \/ ParseCommit
SpecColumns == InitColumns /\ [][NextColumns]_vars

\* the roles a table resolves: the date, the description, a debit or a credit
Resolved(cols) ==
  cols.date_col # 0 /\ cols.desc_col # 0 /\ (cols.cargo_col # 0 \/ cols.abono_col # 0)

\* the last call failed in the column checks
ResolverFailed == result.kind = "error" /\ result.columns # << >>

\* C12: the column checks pass exactly when a date and a description column
\* are found and a debit or a credit column is; with one of the two absent the
\* import goes on and the amount of a row comes from the column present.
C12_ResolutionSucceedsIff ==
  /\ pc \in {"rows", "commit"} => Resolved(Cols)
  /\ ResolverFailed => ~Resolved(identify_columns(result.columns, 1, NoCols))
  /\ (RowWasRun /\ cargo_col = 0) =>
       IF pd_notna(LastRow[abono_col]) /\ RowAbono(LastRow) > 0
       THEN /\ outcome # "skip"
            /\ outcome = "new" => /\ LastEmitted.type = TYPE_INGRESO
                                  /\ LastEmitted.amount = RowAbono(LastRow)
       ELSE outcome = "skip"
  /\ (RowWasRun /\ abono_col = 0) =>
       IF pd_notna(LastRow[cargo_col]) /\ RowCargo(LastRow) > 0
       THEN /\ outcome # "skip"
            /\ outcome = "new" => /\ LastEmitted.type = TYPE_GASTO
                                  /\ LastEmitted.amount = RowCargo(LastRow)
       ELSE outcome = "skip"

\* a table with a credit column and no debit column gave an income
C12_Witness ==
  /\ RowWasRun /\ outcome = "new"
  /\ cargo_col = 0 /\ abono_col # 0
  /\ LastEmitted.type = TYPE_INGRESO
  /\ LastEmitted.amount = 500 * AmountScale

\* the roles an error of the column checks names
RolesNamed(error) ==
  IF error = "No se encontró columna de fecha" THEN {"date"}
  ELSE IF error = "No se encontró columna de descripción" THEN {"description"}
  ELSE IF error = "No se encontraron columnas de Cargo/Abono" THEN {"debit/credit"}
  ELSE {}

\* the roles the columns found leave unresolved
RolesUnresolved(cols) ==
  (IF cols.date_col = 0 THEN {"date"} ELSE {})
    \cup (IF cols.desc_col = 0 THEN {"description"} ELSE {})
    \cup (IF cols.cargo_col = 0 /\ cols.abono_col = 0 THEN {"debit/credit"} ELSE {})

\* C13: an error of the column checks names every role left unresolved and
\* lists the labels of the table.
C13_ErrorNamesEveryRole ==
  ResolverFailed =>
    RolesNamed(result.error) = RolesUnresolved(identify_columns(result.columns, 1, NoCols))

\* the trimmed, lowercased label is one of the words
IsMember(words, label) == \E i \in 1..Len(words) : words[i] = lower(strip(label))

\* the labels of the table are members of a keyword set or hold no keyword
PlainLabels(columns) ==
  \A i \in 1..Len(columns) :
    \A words \in {date_words, desc_words, cargo_words, abono_words} :
      any_word_in(words, lower(strip(columns[i]))) => IsMember(words, columns[i])

\* the leftmost column whose label is one of the words, 0 where there is none
Leftmost(words, columns) ==
  LET hits == {i \in 1..Len(columns) : IsMember(words, columns[i])}
  IN  IF hits = {} THEN 0 ELSE CHOOSE i \in hits : \A j \in hits : i <= j

\* C15: each role is bound to the leftmost column whose label matches it.
C15_FirstMatchWins ==
  (pc \in {"rows", "commit"} /\ PlainLabels(df.columns)) =>
    /\ date_col = Leftmost(date_words, df.columns)
    /\ desc_col = Leftmost(desc_words, df.columns)
    /\ cargo_col = Leftmost(cargo_words, df.columns)
    /\ abono_col = Leftmost(abono_words, df.columns)

\* C16: a column is bound to a role only if its trimmed, lowercased label is
\* one of the words of the role.
C16_ExactMembership ==
  pc \in {"rows", "commit"} =>
    /\ date_col # 0 => IsMember(date_words, df.columns[date_col])
    /\ desc_col # 0 => IsMember(desc_words, df.columns[desc_col])
    /\ cargo_col # 0 => IsMember(cargo_words, df.columns[cargo_col])
    /\ abono_col # 0 => IsMember(abono_words, df.columns[abono_col])

\* C17: a call that finds no table or not the columns ends in an error and
\* leaves the store and the session as they were; any other call goes on to
\* the rows of a table that has rows and the columns.
C17_FailureAborts ==
  [][(calls'.imports = calls.imports + 1) =>
       \/ /\ pc' = "rows"
          /\ df'.rows # << >>
          /\ Resolved([date_col |-> date_col', desc_col |-> desc_col',
                       cargo_col |-> cargo_col', abono_col |-> abono_col'])
          /\ pending_transactions' = << >>
          /\ UNCHANGED <<transactions, pending, next_id>>
       \/ /\ pc' = "idle"
          /\ result'.kind = "error"
          /\ UNCHANGED <<transactions, pending, next_id, pending_transactions,
                         total_imported, duplicates_skipped, auto_categorized>>]_vars

\* a call failed after a call that had left a candidate in the store
C17_Witness ==
  /\ pc = "idle"
  /\ calls.imports = 2
  /\ result.kind = "error"
  /\ pending # {}

----------------------------------------------------------------------------
(* Amounts *)

\* the amount columns the table has
AmountCols == {cargo_col, abono_col} \ {0}

\* a cell is empty: NaN, or a text of nothing but whitespace
EmptyCell(c) == pd_isna(c) \/ (c.k = "str" /\ strip(c.s) = << >>)

\* C14: an empty cell parses to 0; '1.234,56' parses to 1234.56 and
\* '12.500,50' to 12500.50; a cell that holds a number parses to that number.
C14_ParsedValueIsCellValue ==
  RowWasRun =>
    \A col \in AmountCols :
      LET c == LastRow[col]
          parsed == parse_monto(LastRow, col)
      IN  /\ EmptyCell(c) => parsed = 0
          /\ c = CellText(<<"1",".","2","3","4",",","5","6">>) => parsed = 1234 * AmountScale + 56 * (AmountScale \div 100)
          /\ c = CellText(<<"1","2",".","5","0","0",",","5","0">>) => parsed = 12500 * AmountScale + 50 * (AmountScale \div 100)
          /\ c.k = "float" => parsed = c.v
          /\ c.k = "int" => parsed = c.v * AmountScale

----------------------------------------------------------------------------
(* Rows that are passed over *)

BadNoDate == <<NaN, Uber, Monto, NaN>>
BadDate == <<CellText(<<"T","o","t","a","l">>), Uber, Monto, NaN>>
BadNoDesc == <<Mar5, CellText(<<" ">>), Monto, NaN>>
BadNanDesc == <<Mar5, NaN, Monto, NaN>>
RowNotas == <<Mar5, CellText(<<"N","o","t","a","s",":"," ","v","e","r"," ","d","e","t","a","l","l","e">>), Monto, NaN>>
RowInfo == <<Mar5, CellText(<<"I","n","f","o","r","m","a","c","i","ó","n"," ","R","e","f","e","r","e","n","c","i","a","l">>), Monto, NaN>>
BadZero == <<Mar5, Uber, CellText(<<"0">>), NaN>>
BadAmount == <<Mar5, Uber, CellText(<<"a","b","c">>), NaN>>

BadRows ==
  {BadNoDate, BadDate, BadNoDesc, BadNanDesc, RowSubtotal, RowNotas, RowInfo, BadZero,
   BadAmount}

StdTable(rows) == ExcelFile([columns |-> StdColumns, rows |-> rows])

\* a row that is passed over alone, after a row, before a row, between two
SkipFiles ==
  {StdTable(<<b>>) : b \in BadRows}
    \cup {StdTable(<<RowUber, b>>) : b \in BadRows}
    \cup {StdTable(<<b, RowRenta>>) : b \in BadRows}
    \cup {StdTable(<<RowUber, b, RowRenta>>) : b \in BadRows}
    \cup {StdTable(<<RowUber>>), StdTable(<<RowUber, RowRenta>>)}

\* the same files without the rows that are passed over
CleanFiles == {StdTable(<<RowUber>>), StdTable(<<RowRenta>>), StdTable(<<RowUber, RowRenta>>)}

SkipRules == {Rule(<<"u","b","e","r">>, 1, 10)}

\* a transaction with the date, the amount and the description of RowSubtotal
SubtotalRecord ==
  [category_id |-> 1, amount |-> 1234 * AmountScale + 56 * (AmountScale \div 100),
   type |-> TYPE_GASTO, description |-> <<"S","U","B","T","O","T","A","L"," ","M","O","V","I","M","I","E","N","T","O","S">>, date |-> Date(2025, 3, 5)]

InitSkips == Init({Jan15})
NextSkips ==
  \/ CreateImportRule({1, 2}, SkipRules)
  \/ CreateTransaction({1}, {SubtotalRecord})
  \/ (calls.imports = 0 /\ ParseBegin({1}, SkipFiles, {calls.imports + 1}))
  \/ (calls.imports = 1 /\ ParseBegin({2}, CleanFiles, {calls.imports + 1}))
  \/ ParseRow
  \/ ParseCommit
SpecSkips == InitSkips /\ [][NextSkips]_vars

\* a description holds one of the words of totals and notes, in any case
Boilerplate(d) ==
  \/ contains(lower(d), <<"s","u","b","t","o","t","a","l">>)
  \/ contains(lower(d), <<"n","o","t","a","s",":">>)
  \/ contains(lower(d), <<"i","n","f","o","r","m","a","c","i","ó","n"," ","r","e","f","e","r","e","n","c","i","a","l">>)

\* C11: a row whose description holds 'subtotal', 'notas:' or 'información
\* referencial' in any case is passed over: it is counted neither as imported
\* nor as a duplicate and is never among the candidates, also when the store
\* holds a record with its date, amount and description.
C11_BoilerplateSkipped ==
  /\ [][(RowStep /\ Boilerplate(RowDesc(df.rows[idx]))) =>
          /\ outcome' = "skip"
          /\ UNCHANGED <<total_imported, duplicates_skipped, pending_transactions>>]_vars
  /\ [](\A i \in 1..Len(pending_transactions) :
          ~Boilerplate(pending_transactions[i].raw_description))
  /\ [](\A p \in pending : ~Boilerplate(p.raw_description))

\* 'SUBTOTAL MOVIMIENTOS' was passed over after a row was imported, with a
\* transaction of the same date, amount and description in the store
C11_Witness ==
  /\ RowWasRun /\ outcome = "skip"
  /\ RowDesc(LastRow) = <<"S","U","B","T","O","T","A","L"," ","M","O","V","I","M","I","E","N","T","O","S">>
  /\ Recorded(user_id, LastRow)
  /\ total_imported = 1 /\ duplicates_skipped = 0

\* the rows of a table that are not passed over
Kept(rows) == SelectSeq(rows, StructurallyValid)

\* what a candidate holds apart from its user and its batch
Shape(p) ==
  [date |-> p.date, amount |-> p.amount, type |-> p.type, description |-> p.description,
   raw_description |-> p.raw_description, category_id |-> p.category_id,
   auto_categorized |-> p.auto_categorized]

Shapes(candidates) == [i \in 1..Len(candidates) |-> Shape(candidates[i])]

\* the rules of a user, apart from their ids
RulesOf(u) ==
  {[keyword |-> r.keyword, category_id |-> r.category_id, priority |-> r.priority,
    is_active |-> r.is_active] : r \in {q \in import_rules : q.user_id = u}}

\* the call that has ended ran on the table of the call before it without the
\* rows that are passed over, for a user with the same rules, and neither
\* call found a row in the store or was run while another handler wrote
RanWithoutSkipped ==
  /\ pc = "idle" /\ result.kind = "ok"
  /\ seen.prev_ok /\ seen.prev_fresh /\ seen.prev_quiet /\ seen.fresh /\ seen.quiet
  /\ df.columns = seen.prev_df.columns
  /\ df.rows = Kept(seen.prev_df.rows)
  /\ RulesOf(user_id) = RulesOf(seen.prev_user)

\* C18: a row that fails is passed over and the loop goes on: the import
\* raises for no row and ends with the candidates it gives for the table
\* without the rows that fail.
C18_RowFailureSkipsRow ==
  /\ [][RowStep =>
          /\ pc' = (IF idx = Len(df.rows) THEN "commit" ELSE "rows")
          /\ result' = result]_vars
  /\ [](pc = "commit" => <<idx, result.kind>> = <<Len(df.rows) + 1, "none">>)
  /\ [](RanWithoutSkipped =>
          /\ result.total_imported = seen.prev_total
          /\ Shapes(pending_transactions) = Shapes(seen.prev_candidates))

\* a table with a row that fails between two rows gave the two candidates the
\* table of the two rows gives
C18_Witness ==
  /\ RanWithoutSkipped
  /\ Len(seen.prev_df.rows) = 3
  /\ result.total_imported = 2
  /\ result.auto_categorized = 1

----------------------------------------------------------------------------
(* Batches *)

BatchFiles == {StdTable(<<RowUber>>), StdTable(<<RowLuz, RowRenta>>)}

\* imports of two users whose batch_id is any of BatchIds, confirmations and
\* deletions
InitBatch == Init({Jan15})
NextBatch ==
  \/ ParseBegin(Users, BatchFiles, BatchIds)
  \/ ParseRow
  \/ ParseCommit
  \/ ConfirmPending
  \/ DeletePending
SpecBatch == InitBatch /\ [][NextBatch]_vars

\* the last call that went through has returned
CallReturned == pc = "idle" /\ batch_id # 0

\* the rows of the store that are candidates of that call
Mine == {p \in pending : \E i \in 1..Len(pending_transactions) : pending_transactions[i].id = p.id}

\* the rows of the store that other calls of the same user left with the
\* same import_batch_id
SameBatchOthers == {p \in pending \ Mine : p.user_id = user_id /\ p.import_batch_id = batch_id}

\* the candidates of a call carry its batch_id, which the result returns
StampedAlike ==
  /\ \A i \in 1..Len(pending_transactions) :
       /\ pending_transactions[i].import_batch_id = batch_id
       /\ pending_transactions[i].user_id = user_id
  /\ result.kind = "ok" =>
       /\ result.batch_id = batch_id
       /\ result.pending_transactions
            = {pending_transactions[i] : i \in 1..Len(pending_transactions)}

\* C20 as stated: the query by the batch_id of a call returns exactly the
\* candidates of that call that are not confirmed.
C20_BatchQueryExact ==
  /\ StampedAlike
  /\ CallReturned =>
       get_pending_transactions(pending, user_id, batch_id) = {p \in Mine : ~p.is_confirmed}

\* C20 amended: the query by the batch_id of a call returns the stored,
\* unconfirmed candidates of that call and of every other call of the user
\* that drew the same batch_id.
C20_BatchIdentity ==
  /\ StampedAlike
  /\ CallReturned =>
       get_pending_transactions(pending, user_id, batch_id)
         = {p \in Mine \cup SameBatchOthers : ~p.is_confirmed}

\* a second call of the user drew the batch_id of the first; one of its two
\* candidates is confirmed and the query returns the other and that of the
\* first call
C20_Witness ==
  /\ CallReturned
  /\ \E p \in Mine : p.is_confirmed
  /\ \E p \in Mine : ~p.is_confirmed
  /\ \E p \in SameBatchOthers : ~p.is_confirmed
  /\ Cardinality(get_pending_transactions(pending, user_id, batch_id)) = 2

----------------------------------------------------------------------------
(* The loader: files as the readers see them *)

StdTable1 == [columns |-> StdColumns, rows |-> <<RowUber>>]
HeaderCells == [i \in 1..Len(StdColumns) |-> CellText(StdColumns[i])]

\* the readings of a file by the attempts listed, the others raising
Readings(excel, attempts, raws) ==
  [excel |-> excel,
   csv |-> [a \in DOMAIN NoCsv |->
              IF \E i \in 1..Len(attempts) : attempts[i] = a
              THEN [ok |-> TRUE, raw |-> raws[CHOOSE i \in 1..Len(attempts) : attempts[i] = a]]
              ELSE [ok |-> FALSE, raw |-> << >>]]]

NotExcel == [ok |-> FALSE, df |-> NoTable]

\* a semicolon file in latin1 with an accent: utf-8 raises, the comma and tab
\* readings have one cell a line and raise at the line with the decimal comma
SemiLatin1 ==
  Readings(NotExcel, <<<<";", "latin1">>, <<";", "iso-8859-1">>, <<";", "cp1252">>>>,
           <<raw_of(StdTable1), raw_of(StdTable1), raw_of(StdTable1)>>)

\* a comma file in utf-8: the semicolon reading has one cell a line
CommaLine1 == <<CellText(<<"F","e","c","h","a",",","D","e","s","c","r","i","p","c","i","ó","n",",","C","a","r","g","o">>)>>
CommaLine2 == <<CellText(<<"2","0","2","5","-","0","3","-","0","5",",","U","b","e","r"," ","v","i","a","j","e",",","5","0","0">>)>>
CommaTable == [columns |-> <<<<"F","e","c","h","a">>, <<"D","e","s","c","r","i","p","c","i","ó","n">>, <<"C","a","r","g","o">>>>,
               rows |-> <<<<Mar5, Uber, CellText(<<"5","0","0">>)>>>>]
CommaUtf8 ==
  Readings(NotExcel, <<<<";", "utf-8">>, <<";", "latin1">>, <<",", "utf-8">>, <<",", "latin1">>>>,
           <<<<CommaLine1, CommaLine2>>, <<CommaLine1, CommaLine2>>,
             raw_of(CommaTable), raw_of(CommaTable)>>)

\* a semicolon file in cp1252 whose description has a euro sign: the latin1
\* readings give the byte as a control character
EuroRow(c) == <<Mar5, CellText(<<c>> \o <<" ","c","a","m","b","i","o">>), Monto, NaN>>
EuroTable(c) == [columns |-> <<<<"F","e","c","h","a">>, <<"D","e","t","a","l","l","e">>, <<"C","a","r","g","o">>, <<"A","b","o","n","o">>>>, rows |-> <<EuroRow(c)>>]
EuroCp1252 ==
  Readings(NotExcel, <<<<";", "latin1">>, <<";", "iso-8859-1">>, <<";", "cp1252">>>>,
           <<raw_of(EuroTable("?")), raw_of(EuroTable("?")), raw_of(EuroTable("€"))>>)

\* a tab file in ascii
TabTable == [columns |-> <<<<"F","e","c","h","a">>, <<"D","e","t","a","l","l","e">>, <<"A","b","o","n","o">>>>,
             rows |-> <<<<Mar6, Uber, CellText(<<"5","0","0">>)>>>>]
TabAscii ==
  Readings(NotExcel, <<<<"tab", "utf-8">>, <<"tab", "latin1">>, <<"tab", "iso-8859-1">>,
                       <<"tab", "cp1252">>>>,
           <<raw_of(TabTable), raw_of(TabTable), raw_of(TabTable), raw_of(TabTable)>>)

\* a semicolon file with lines above the header, and one whose title line
\* has the words of a header
Title == <<CellText(<<"C","a","r","t","o","l","a"," ","c","u","e","n","t","a"," ","c","o","r","r","i","e","n","t","e">>), NaN, NaN, NaN>>
TitleLike == <<CellText(<<"D","e","t","a","l","l","e"," ","d","e"," ","m","o","v","i","m","i","e","n","t","o","s"," ","p","o","r"," ","f","e","c","h","a">>), NaN, NaN, NaN>>
WithTitle(title) ==
  Readings(NotExcel, <<<<";", "utf-8">>>>, <<<<title, HeaderCells, RowUber>>>>)

\* a semicolon file that ends at its header, and one without a header
HeaderOnly == Readings(NotExcel, <<<<";", "utf-8">>>>, <<<<Title, HeaderCells>>>>)
NoHeader == Readings(NotExcel, <<<<";", "utf-8">>, <<",", "utf-8">>>>,
                     <<<<Title, RowUber>>, <<Title, RowUber>>>>)

\* a workbook whose first sheet has no rows and whose bytes the semicolon
\* reading finds a header in, and the same with a row in the sheet
EmptySheet == Readings([ok |-> TRUE, df |-> [columns |-> << >>, rows |-> << >>]],
                       <<<<";", "latin1">>>>, <<raw_of(StdTable1)>>)
FilledSheet == Readings([ok |-> TRUE, df |-> [columns |-> StdColumns, rows |-> <<RowOtherDate>>]],
                        <<<<";", "latin1">>>>, <<raw_of(StdTable1)>>)

LoadFiles ==
  {SemiLatin1, CommaUtf8, EuroCp1252, TabAscii, WithTitle(Title), WithTitle(TitleLike),
   HeaderOnly, NoHeader, EmptySheet, FilledSheet, Unreadable, OneRow(RowUber),
   Table(StdColumns, << >>)}

InitLoad == Init({Jan15})
NextLoad ==
  \/ ParseBegin({1}, LoadFiles, {calls.imports + 1})
  \/ ParseRow
  \/ ParseCommit
SpecLoad == InitLoad /\ [][NextLoad]_vars

\* a call was made by this step
Began == calls'.imports = calls.imports + 1

\* the k-th pair, the separators outermost
Separators == <<";", ",", "tab">>
Encodings == <<"utf-8", "latin1", "iso-8859-1", "cp1252">>
PairAt(k) == <<Separators[((k - 1) \div Len(Encodings)) + 1], Encodings[((k - 1) % Len(Encodings)) + 1]>>
PairCount == Len(Separators) * Len(Encodings)

\* the words of a header are in the cells of a row
HeaderWords(row) ==
  /\ \E i \in 1..Len(row) : pd_notna(row[i]) /\ contains(lower(str(row[i])), <<"f","e","c","h","a">>)
  /\ \E i \in 1..Len(row), w \in {<<"d","e","s","c","r","i","p","c","i","ó","n">>, <<"d","e","s","c","r","i","p","c","i","o","n">>, <<"d","e","t","a","l","l","e">>} :
       pd_notna(row[i]) /\ contains(lower(str(row[i])), w)

\* pair k decodes content into rows that have a header row
Decodes(content, k) ==
  /\ content.csv[PairAt(k)].ok
  /\ \E r \in 1..Len(content.csv[PairAt(k)].raw) : HeaderWords(content.csv[PairAt(k)].raw[r])

\* table is what pair k gives: the rows under the first header row, named by it
GivenBy(content, k, table) ==
  \E r \in 1..Len(content.csv[PairAt(k)].raw) :
    /\ HeaderWords(content.csv[PairAt(k)].raw[r])
    /\ \A q \in 1..(r - 1) : ~HeaderWords(content.csv[PairAt(k)].raw[q])
    /\ Len(table.columns) = Len(content.csv[PairAt(k)].raw[r])
    /\ \A i \in 1..Len(table.columns) :
         pd_notna(content.csv[PairAt(k)].raw[r][i]) =>
           table.columns[i] = content.csv[PairAt(k)].raw[r][i].s
    /\ table.rows = SubSeq(content.csv[PairAt(k)].raw, r + 1, Len(content.csv[PairAt(k)].raw))

\* how a call that began went on, given its result, its position and its table
FailedUnreadable(res) == res.kind = "error" /\ res.columns = << >>
WentOnWith(table, res, at, frame) ==
  \/ table.rows = << >> /\ FailedUnreadable(res)
  \/ table.rows # << >> /\ at = "rows" /\ frame = table
  \/ table.rows # << >> /\ res.kind = "error" /\ res.columns = columns_listed(table)

\* C22: when the spreadsheet reader raises, the call goes on with the table of
\* the first pair, separators outermost, that decodes the bytes into rows with
\* a header row, the first such row naming the columns, whatever the later
\* pairs give; it fails as unreadable when no pair does.
C22_FirstPairInOrder ==
  [][(Began /\ ~file_content'.excel.ok) =>
       IF \E k \in 1..PairCount : Decodes(file_content', k)
       THEN \E k \in 1..PairCount, table \in {df', csv_search(file_content').df} :
              /\ Decodes(file_content', k)
              /\ \A j \in 1..(k - 1) : ~Decodes(file_content', j)
              /\ GivenBy(file_content', k, table)
              /\ WentOnWith(table, result', pc', df')
       ELSE FailedUnreadable(result')]_vars

\* a call went on with the table of a pair that a later pair reads otherwise
C22_Witness ==
  /\ pc = "rows"
  /\ ~file_content.excel.ok
  /\ \E k \in 1..PairCount, j \in 1..PairCount :
       /\ k < j
       /\ Decodes(file_content, k) /\ Decodes(file_content, j)
       /\ GivenBy(file_content, k, df)
       /\ ~GivenBy(file_content, j, df)

\* the call went on as the search over the pairs has it
SearchDecides(content, res, at, frame) ==
  IF \E k \in 1..PairCount : Decodes(content, k)
  THEN \E k \in 1..PairCount, table \in {frame, csv_search(content).df} :
         /\ Decodes(content, k)
         /\ \A j \in 1..(k - 1) : ~Decodes(content, j)
         /\ GivenBy(content, k, table)
         /\ WentOnWith(table, res, at, frame)
  ELSE FailedUnreadable(res)

\* C23: the table of the spreadsheet reader is taken when it has rows; when
\* the reader raises or gives a table without rows, the call goes on as the
\* search over the pairs has it.
C23_NativeFirstThenSearch ==
  [][Began =>
       IF file_content'.excel.ok /\ file_content'.excel.df.rows # << >>
       THEN WentOnWith(file_content'.excel.df, result', pc', df')
       ELSE SearchDecides(file_content', result', pc', df')]_vars

----------------------------------------------------------------------------
(* The shorthand date rule and the cells it is not for *)

\* the day a cell DD/Mon names
ShorthandDay(cell) == NatVal(split(strip(cell.s), "/")[1])

\* C24: a row whose date cell is DD/Mon with a listed month is dated with day
\* DD of that month; a row whose date cell is any other text is dated, if at
\* all, with what the generic parsing makes of the cell.
C24_ShorthandOnlyListedMonths ==
  (RowWasRun /\ outcome = "new" /\ LastRow[date_col].k = "str") =>
    IF IsShorthand(LastRow[date_col])
    THEN /\ LastEmitted.date.d = ShorthandDay(LastRow[date_col])
         /\ LastEmitted.date.m = ShorthandMonth(LastRow[date_col])
    ELSE /\ to_datetime(LastRow[date_col]).ok
         /\ LastEmitted.date = to_datetime(LastRow[date_col]).date

----------------------------------------------------------------------------
(* Rules: when they are read, and which of two equals wins *)

\* C25: the candidates of a call have the categories that one list of rules,
\* of those stored at some time since the call began, gives their descriptions.
C25_RulesReadOnce ==
  pc \in {"rows", "commit"} =>
    \E rules \in seen.rules :
      \A i \in 1..Len(pending_transactions) :
        pending_transactions[i].category_id
          \in apply_import_rules(rules, user_id, pending_transactions[i].raw_description)

\* the matching rules of user u that no matching rule outranks
TopRules(u, description) ==
  {r \in MatchingRules(u, description) :
     \A q \in MatchingRules(u, description) : q.priority <= r.priority}

\* C26: the category of an emitted row is that of the rule created first
\* among the matching rules of the highest priority.
C26_FirstCreatedWinsTies ==
  [][(RowStep /\ outcome' = "new" /\ TopRules(user_id, RowDesc(df.rows[idx])) # {}) =>
       \E r \in TopRules(user_id, RowDesc(df.rows[idx])) :
         /\ \A q \in TopRules(user_id, RowDesc(df.rows[idx])) : r.id <= q.id
         /\ pending_transactions'[Len(pending_transactions')].category_id = r.category_id]_vars

----------------------------------------------------------------------------
(* Confirmation: lists that repeat an id, calls that follow calls, categories *)

\* the lists transaction_ids of one or two ids, an id allowed twice
RepeatedIdLists == UNION {[1..n -> 1..(next_id.pending - 1)] : n \in 1..MaxRepeatedIds}

ConfirmFiles == {ExcelFile([columns |-> StdColumns, rows |-> <<RowUber, RowLuz>>])}
ConfirmRules == {Rule(<<"u","b","e","r">>, 1, 10)}

InitConfirm == Init({Jan15})
NextConfirm ==
  \/ CreateImportRule({1}, ConfirmRules)
  \/ ParseBegin({1}, ConfirmFiles, {calls.imports + 1})
  \/ ParseBegin({2}, {OneRow(RowUber)}, {calls.imports + 1})
  \/ ParseRow
  \/ ParseCommit
  \/ ConfirmPendingOf(RepeatedIdLists, MaxConfirmCalls)
SpecConfirm == InitConfirm /\ [][NextConfirm]_vars

\* a call of confirm_pending_transactions was made by this step
ConfirmStep == calls'.confirms = calls.confirms + 1

\* the transactions the step created, the record of a pending transaction
\* after the step, and the pending transactions the step promoted
Created == transactions' \ transactions
After(p) == CHOOSE q \in pending' : q.id = p.id
Promoted == {p \in pending : ~p.is_confirmed /\ After(p).is_confirmed}

\* C27: a call creates one transaction for each pending transaction it
\* promotes, promotes none that was confirmed before, and returns the number
\* of transactions it created.
C27_PromotedAtMostOnce ==
  [][ConfirmStep =>
       /\ Cardinality(Created) = Cardinality(Promoted)
       /\ \A p \in pending : p.is_confirmed => After(p) = p
       /\ result'.confirmed_count = Cardinality(Created)]_vars

\* C28: every transaction a call creates has a category; a pending
\* transaction left without a category is left as it was; the call changes
\* only unconfirmed pending transactions of one user, promoting each it
\* changes, and creates transactions for that user only, none when it
\* promotes none.
C28_NoCategoryStaysPending ==
  [][ConfirmStep =>
       /\ {q.id : q \in pending'} = {p.id : p \in pending}
       /\ \A t \in Created : t.category_id # None
       /\ \A p \in pending : After(p).category_id = None => After(p) = p
       /\ \A p \in pending : p.is_confirmed => After(p) = p
       /\ \A p \in pending : After(p) # p => p \in Promoted
       /\ \E u \in Users : /\ \A t \in Created : t.user_id = u
                           /\ \A p \in Promoted : p.user_id = u
       /\ Promoted = {} => (Created = {} /\ result'.confirmed_count = 0)]_vars

\* a call confirmed nothing where a candidate of the first user has no
\* category and the second user has a candidate too
C28_Witness ==
  /\ result.kind = "confirmed"
  /\ result.confirmed_count = 0
  /\ transactions = {}
  /\ \E p \in pending : p.user_id = 1 /\ p.category_id = None /\ ~p.is_confirmed
  /\ \E p \in pending : p.user_id = 2 /\ ~p.is_confirmed

----------------------------------------------------------------------------
(* The life of a candidate: imported, confirmed, deleted, imported again *)

\* the store after the step holds for the user of p a record with its key
KeptRecorded(p) ==
  \/ \E q \in pending' : q.user_id = p.user_id /\ q.date = p.date /\ q.amount = p.amount
                         /\ q.description = p.description
  \/ \E t \in transactions' : t.user_id = p.user_id /\ t.date = p.date /\ t.amount = p.amount
                              /\ t.description = p.description

\* C29: a structurally valid row with the key of a pending transaction of the
\* user, confirmed or not, or of a transaction of the user, is counted as a
\* duplicate and not emitted; a row is emitted only when the store holds
\* neither; a stored candidate stays in the table until a call deletes it,
\* a confirmed transaction stays, and so a key that is recorded stays
\* recorded through every step but the deletion of its pending record.
C29_DuplicateWhileRecorded ==
  [][/\ (RowStep /\ StructurallyValid(df.rows[idx]) /\ Recorded(user_id, df.rows[idx]))
          => (outcome' = "dup" /\ duplicates_skipped' = duplicates_skipped + 1
              /\ pending_transactions' = pending_transactions)
     /\ (RowStep /\ outcome' = "new") => ~Recorded(user_id, df.rows[idx])
     /\ transactions \subseteq transactions'
     /\ \A p \in pending :
          \/ KeptRecorded(p) /\ \E q \in pending' : q.id = p.id
          \/ /\ calls'.deletes = calls.deletes + 1
             /\ ~\E q \in pending' : q.id = p.id
             /\ \A q \in pending \ {p} : q \in pending']_vars

\* a row was dropped in a later call for its candidate, confirmed in between,
\* and for the transaction made of it
C29_Witness ==
  /\ RowWasRun /\ outcome = "dup"
  /\ calls.confirms = 1
  /\ \E p \in pending : p.user_id = user_id /\ SameKey(p, LastRow) /\ p.is_confirmed
  /\ \E t \in transactions : t.user_id = user_id /\ SameKey(t, LastRow)

----------------------------------------------------------------------------
(* Categories: whose they are, and whether they are still there *)

CategoryRules == {Rule(<<"u","b","e","r">>, 1, 10), Rule(<<"l","u","z">>, 2, 10)}

InitCategories == Init({Jan15})
NextCategories ==
  \/ CreateImportRule({1}, CategoryRules)
  \/ ParseBegin({1}, ConfirmFiles, {calls.imports + 1})
  \/ ParseRow
  \/ ParseCommit
  \/ ConfirmPending
  \/ DeleteCategory
SpecCategories == InitCategories /\ [][NextCategories]_vars

\* C30: every transaction names a category that is stored and is of the
\* user of the transaction.
C30_CategoryExistsAndOwned ==
  \A t \in transactions :
    \E c \in categories : c.id = t.category_id /\ c.user_id = t.user_id

----------------------------------------------------------------------------
(* Reminders marked as paid *)

\* a transaction of the first user that is there before a reminder is paid
RentRecord ==
  [category_id |-> 1, amount |-> 45 * AmountScale, type |-> TYPE_GASTO,
   description |-> <<"R","e","n","t","a">>, date |-> Date(2025, 3, 5)]

\* the reminder ids of the calls: those stored and one that is not
ReminderIds == {r.id : r \in StoredReminders} \cup {4}
PaymentDates == {Date(2025, 3, 5), Date(2025, 3, 6)}

InitReminders == Init({Jan15})
NextReminders ==
  \/ MarkReminderAsPaid(ReminderIds, PaymentDates)
  \/ CreateTransaction({1}, {RentRecord})
SpecReminders == InitReminders /\ [][NextReminders]_vars

\* a call of mark_reminder_as_paid was made by this step
PaidStep == calls'.paid = calls.paid + 1

\* the reminders the call is for: those with its reminder_id and its user
RemindersOf(args) == {r \in reminders : r.id = args.reminder_id /\ r.user_id = args.user_id}

\* t is the expense the call makes of reminder r
PaymentOf(t, r, args) ==
  /\ t.user_id = r.user_id
  /\ t.amount = r.amount
  /\ t.type = TYPE_GASTO
  /\ t.category_id = args.category_id
  /\ t.date = args.payment_date

====
